---- MODULE Spec2Model ----
(***************************************************************************)
(* Webhook ingestion pipeline of the wazzup service                        *)
(* (src/src/services/webhook_handler.rs, src/src/services/bot_service.rs). *)
(*                                                                         *)
(* Strings are sequences of one-character strings, so that validation,     *)
(* trimming and sanitisation work on characters as the code does.          *)
(* Multi-character tokens stand for literals of format! templates only.    *)
(* Fields the code only compares with literals (role, type, chat_type,     *)
(* status) are plain strings.                                              *)
(* Cyrillic literals of the source are transliterated (noted where used).  *)
(* Option<T> is a tuple: None is <<>> and Some(x) is <<x>>.                *)
(***************************************************************************)
EXTENDS Integers, Sequences, FiniteSets, TLC

\* ------------------------------------------------------------------ bounds
\* Longest contacts / messages array whose items are drawn freely from the pools.
MaxBatchLen == 2
\* Largest value read from the wall clock (chrono::Utc::now().timestamp_millis());
\* the wall clock is not monotonic, every reading is an input in 0..MaxClock.
MaxClock == 0
\* Connections opened in one run of the pool.
MaxConnections == 3
\* The longest byte string handed to uuid_from_bytes.
MaxBytesLen == 17

\* The calls one task makes on the pool, one after the other.
MaxCalls == 2

\* ------------------------------------------------------- program constants
\* webhook_handler.rs:196,203  contacts.len() > 100 / messages.len() > 100
MaxEvents == 100
\* webhook_handler.rs:80  id.len() > 100
MaxIdLen == 100
\* webhook_handler.rs:28  trimmed.len() > 254
MaxEmailLen == 254
\* webhook_handler.rs:43  trimmed.len() > 255
MaxNameLen == 255
\* webhook_handler.rs:62  trimmed.len() > 20
MaxPhoneLen == 20

\* ---------------------------------------------------------------- Option<T>
None == <<>>
Some(x) == <<x>>
IsSome(o) == o # <<>>
Unwrap(o) == o[1]

\* --------------------------------------------------------------- characters
Digits == {"0", "1", "2", "3", "4", "5", "6", "7", "8", "9"}
LowerLetters == {"a", "b", "c", "h", "i", "k", "l", "m", "o", "t", "y"}
UpperLetters == {"A", "B"}
Whitespace == {" "}

\* char::is_alphanumeric
is_alphanumeric(c) == c \in Digits \/ c \in LowerLetters \/ c \in UpperLetters

\* char::is_ascii_digit
is_ascii_digit(c) == c \in Digits

\* char::is_whitespace
is_whitespace(c) == c \in Whitespace

\* str::to_lowercase, per character
LowerChar(c) == IF c = "A" THEN "a" ELSE IF c = "B" THEN "b" ELSE c

to_lowercase(s) == [i \in 1..Len(s) |-> LowerChar(s[i])]

RECURSIVE TrimStart(_)
TrimStart(s) == IF s # <<>> /\ is_whitespace(Head(s)) THEN TrimStart(Tail(s)) ELSE s

RECURSIVE TrimEnd(_)
TrimEnd(s) ==
    IF s # <<>> /\ is_whitespace(s[Len(s)]) THEN TrimEnd(SubSeq(s, 1, Len(s) - 1)) ELSE s

\* str::trim
trim(s) == TrimEnd(TrimStart(s))

contains(s, c) == \E i \in 1..Len(s) : s[i] = c

\* ------------------------------------------------------------- validators
\* fn validate_and_normalize_email
validate_and_normalize_email(email) ==
    LET trimmed == trim(email) IN
    IF trimmed = <<>> \/ Len(trimmed) > MaxEmailLen THEN None
    ELSE IF ~contains(trimmed, "@") \/ Head(trimmed) = "@" \/ trimmed[Len(trimmed)] = "@"
         THEN None
    ELSE Some(to_lowercase(trimmed))

NameChar(c) ==
    is_alphanumeric(c) \/ is_whitespace(c)
        \/ c \in {"-", "_", ".", ",", "(", ")", "[", "]", "{", "}"}

\* fn validate_and_normalize_name
validate_and_normalize_name(name) ==
    LET trimmed == trim(name)
        cleaned == SelectSeq(trimmed, NameChar)
    IN  IF trimmed = <<>> \/ Len(trimmed) > MaxNameLen THEN None
        ELSE IF cleaned = <<>> THEN None
        ELSE Some(cleaned)

PhoneChar(c) == is_ascii_digit(c) \/ c \in {"+", "(", ")", "-", ".", " "}

\* fn validate_and_normalize_phone
validate_and_normalize_phone(phone) ==
    LET trimmed == trim(phone)
        cleaned == SelectSeq(trimmed, PhoneChar)
    IN  IF trimmed = <<>> \/ Len(trimmed) > MaxPhoneLen THEN None
        ELSE IF cleaned = <<>> THEN None
        ELSE Some(cleaned)

\* fn validate_id
validate_id(id) ==
    /\ id # <<>>
    /\ Len(id) <= MaxIdLen
    /\ \A i \in 1..Len(id) : is_alphanumeric(id[i]) \/ id[i] = "-" \/ id[i] = "_"

\* fn determine_message_direction: the is_inbound component of the result.
\* Its second component is a log string only.
determine_message_direction(msg) ==
    IF msg.is_echo = Some(FALSE) THEN TRUE
    ELSE IF msg.is_echo = Some(TRUE) THEN FALSE
    ELSE msg.status = Some("inbound")

\* ------------------------------------------------- tenant database tables
\* A tenant database T is a record of its tables:
\*   channels  wazzup_channels  [id, type]
\*   chats     wazzup_chats     [id, channel_id]
\*   clients   clients          [id, full_name, email, phone, wazzup_chat,
\*                               responsible_user_id]
\*   messages  wazzup_messages  [id, content, chat_id, is_inbound, is_echo,
\*                               direction_status]
\*   users     users            [id, role, hook]
\* The schema is not part of the sources: an insert is refused by the primary
\* key or unique column the entity declares, and may fail for any other reason
\* (a foreign key the schema enforces, a lost connection) as an injected fault.
\* created_at, author_name and author_id are stored verbatim and never read by
\* the pipeline; they are left out of the rows.

\* clients.id is generated by the database (id: NotSet).
NextClientId(T) ==
    IF T.clients = {} THEN 1
    ELSE 1 + CHOOSE n \in {c.id : c \in T.clients} : \A c \in T.clients : c.id <= n

\* wazzup_channels::ActiveModel::insert: primary key id.
ChannelInsertOk(T, row) == \A c \in T.channels : c.id # row.id

\* wazzup_chats::ActiveModel::insert: primary key id.
ChatInsertOk(T, row) == \A c \in T.chats : c.id # row.id

\* clients::ActiveModel::insert: unique email.
ClientInsertOk(T, row) == \A c \in T.clients : c.email # row.email

\* Mutant of MessageInsertOk: the table has no key.
MessageInsertOk_no_key(T, row) == TRUE

\* wazzup_messages::ActiveModel::insert: primary key id.
MessageInsertOk(T, row) == \A m \in T.messages : m.id # row.id

\* ------------------------------------------------------------ step results
\* What processing one item did: the tables afterwards, the branch taken, and
\* err, the storage call whose error left the item loop through `?` ("" if none).
Result(T, outcome) == [db |-> T, outcome |-> outcome, err |-> ""]

Propagated(T, at) == [db |-> T, outcome |-> "error", err |-> at]

\* Mutant of find_bot_user: no bot user is ever found.
find_bot_user_none(T) == {None}

\* fn find_bot_user: the outcomes of .one() over the users whose role is "bot"
\* (the query states no order).
find_bot_user(T) ==
    IF \E u \in T.users : u.role = "bot"
    THEN {Some(u.id) : u \in {v \in T.users : v.role = "bot"}}
    ELSE {None}

\* ------------------------------------------------- handle_contacts, one item
\* "Neizvestnyj kontakt" transliterates the literal of lines 391-410.
UnknownContact == <<"Neizvestnyj kontakt">>

\* Lines 379-412: full_name of a Client made from a contact event.
ContactFullName(contact) ==
    LET byPhone ==
            IF IsSome(contact.phone)
                  /\ IsSome(validate_and_normalize_phone(Unwrap(contact.phone)))
            THEN Unwrap(validate_and_normalize_phone(Unwrap(contact.phone)))
            ELSE UnknownContact
    IN  IF IsSome(contact.name)
              /\ IsSome(validate_and_normalize_name(Unwrap(contact.name)))
        THEN Unwrap(validate_and_normalize_name(Unwrap(contact.name)))
        ELSE byPhone

\* format!("{}+{}@generated.wazzup", id, timestamp)
GeneratedEmail(id, t) == id \o <<"+", ToString(t), "@generated.wazzup">>

\* Lines 414-427: email of a Client made from a contact event.
ContactEmail(contact, t) ==
    IF IsSome(contact.email)
          /\ IsSome(validate_and_normalize_email(Unwrap(contact.email)))
    THEN Unwrap(validate_and_normalize_email(Unwrap(contact.email)))
    ELSE GeneratedEmail(contact.contact_id, t)

\* Lines 429-434.
ContactPhone(contact) ==
    IF IsSome(contact.phone) THEN validate_and_normalize_phone(Unwrap(contact.phone))
    ELSE None

\* Lines 436-441.
ContactWazzupChat(contact) ==
    IF IsSome(contact.chat_id) /\ trim(Unwrap(contact.chat_id)) # <<>>
    THEN Some(trim(Unwrap(contact.chat_id)))
    ELSE None

\* Lines 322-343: the email lookup is made for a non-blank email, with the raw value.
ContactEmailChecked(contact) ==
    IsSome(contact.email) /\ trim(Unwrap(contact.email)) # <<>>

ContactFoundByEmail(T, contact) ==
    \E c \in T.clients : c.email = Unwrap(contact.email)

\* Lines 345-368: the chat lookup is made for a non-blank chat_id, with the raw value.
ContactChatChecked(contact) ==
    IsSome(contact.chat_id) /\ trim(Unwrap(contact.chat_id)) # <<>>

\* Mutant of ContactFoundByChat: the lookup by chat id finds nothing.
ContactFoundByChat_never(T, contact) == FALSE

ContactFoundByChat(T, contact) ==
    \E c \in T.clients : c.wazzup_chat = Some(Unwrap(contact.chat_id))

\* Lines 455-463.
NewClientFromContact(T, contact, t, bot_user_id) ==
    [id |-> NextClientId(T),
     full_name |-> ContactFullName(contact),
     email |-> ContactEmail(contact, t),
     phone |-> ContactPhone(contact),
     wazzup_chat |-> ContactWazzupChat(contact),
     responsible_user_id |-> bot_user_id]

\* Lines 449-479: find_bot_user(...).await? and the insert, whose error is logged.
ContactCreate(T, contact, F, t, bot_user_id) ==
    LET row == NewClientFromContact(T, contact, t, bot_user_id) IN
    IF "find_bot_user" \in F THEN Propagated(T, "find_bot_user")
    ELSE IF "client_insert" \in F \/ ~ClientInsertOk(T, row)
         THEN Result(T, "insert_failed")
    ELSE Result([T EXCEPT !.clients = @ \cup {row}], "created")

\* Lines 286-482: the body of the loop of handle_contacts for one contact event.
\* F: the storage calls that fail, t: the clock, bot_user_id: what find_bot_user
\* returns.
handle_contact(T, contact, F, t, bot_user_id) ==
    IF ~validate_id(contact.contact_id) THEN Result(T, "invalid")
    ELSE IF ContactEmailChecked(contact) /\ "contact_email_lookup" \in F
         THEN Propagated(T, "contact_email_lookup")
    ELSE IF ContactEmailChecked(contact) /\ ContactFoundByEmail(T, contact)
         THEN Result(T, "exists")
    ELSE IF ContactChatChecked(contact) /\ "contact_chat_lookup" \in F
         THEN Propagated(T, "contact_chat_lookup")
    ELSE IF ContactChatChecked(contact) /\ ContactFoundByChat(T, contact)
         THEN Result(T, "exists")
    ELSE ContactCreate(T, contact, F, t, bot_user_id)

\* ------------------------------------------------- handle_messages, one item
\* "Propushchennyj zvonok ot " transliterates the literal of lines 584 and 700.
MissedCallText(name, phone) ==
    <<"Propushchennyj zvonok ot ">> \o name \o <<" (">> \o phone \o <<")">>

\* Mutant of ContentItems: the attachment part comes before the text part.
ContentItems_uri_first(msg) ==
    LET textPart ==
            IF IsSome(msg.text) /\ trim(Unwrap(msg.text)) # <<>>
            THEN <<[type |-> "text", content |-> trim(Unwrap(msg.text))]>>
            ELSE <<>>
        uriPart ==
            IF IsSome(msg.content_uri) /\ trim(Unwrap(msg.content_uri)) # <<>>
            THEN <<[type |-> msg.type, content |-> trim(Unwrap(msg.content_uri))]>>
            ELSE <<>>
    IN  IF uriPart \o textPart = <<>>
        THEN <<[type |-> msg.type, content |-> <<"[", msg.type, "]">>]>>
        ELSE uriPart \o textPart

\* Lines 593-623 and 711-756: the parts of an event that is no missing_call.
ContentItems(msg) ==
    LET textPart ==
            IF IsSome(msg.text) /\ trim(Unwrap(msg.text)) # <<>>
            THEN <<[type |-> "text", content |-> trim(Unwrap(msg.text))]>>
            ELSE <<>>
        uriPart ==
            IF IsSome(msg.content_uri) /\ trim(Unwrap(msg.content_uri)) # <<>>
            THEN <<[type |-> msg.type, content |-> trim(Unwrap(msg.content_uri))]>>
            ELSE <<>>
    IN  IF textPart \o uriPart = <<>>
        THEN <<[type |-> msg.type, content |-> <<"[", msg.type, "]">>]>>
        ELSE textPart \o uriPart

\* Lines 580-624: the content the duplicate lookup is made with.
content_for_check(msg) ==
    IF msg.type = "missing_call"
    THEN LET phone == IF IsSome(msg.client_phone) THEN Unwrap(msg.client_phone)
                      ELSE msg.chat_id
             name == IF IsSome(msg.client_name) THEN Unwrap(msg.client_name)
                     ELSE UnknownContact
         IN  <<[type |-> "missing_call", content |-> MissedCallText(name, phone)]>>
    ELSE ContentItems(msg)

\* Lines 691-757: the content the Message is stored with.
content(msg) ==
    IF msg.type = "missing_call"
    THEN LET phone ==
                 IF IsSome(msg.client_phone)
                       /\ IsSome(validate_and_normalize_phone(Unwrap(msg.client_phone)))
                 THEN Unwrap(validate_and_normalize_phone(Unwrap(msg.client_phone)))
                 ELSE msg.chat_id
             name ==
                 IF IsSome(msg.client_name)
                       /\ IsSome(validate_and_normalize_name(Unwrap(msg.client_name)))
                 THEN Unwrap(validate_and_normalize_name(Unwrap(msg.client_name)))
                 ELSE UnknownContact
         IN  <<[type |-> "missing_call", content |-> MissedCallText(name, phone)]>>
    ELSE ContentItems(msg)

\* Mutant of MessageIdsValid: only the message id is checked.
MessageIdsValid_message_id_only(msg) == validate_id(msg.message_id)

\* Lines 502-516.
MessageIdsValid(msg) ==
    validate_id(msg.message_id) /\ validate_id(msg.channel_id) /\ validate_id(msg.chat_id)

\* Mutant of MessageExistsById: the lookup by id never finds a row.
MessageExistsById_never(T, msg) == FALSE

\* Lines 563-574: a Message with the event's id is stored.
MessageExistsById(T, msg) == \E m \in T.messages : m.id = msg.message_id

\* Lines 629-642: a Message of the chat has the content of content_for_check.
DuplicateByContent(T, msg) ==
    \E m \in T.messages : m.chat_id = msg.chat_id /\ m.content = content_for_check(msg)

\* Mutant of EnsureChannel: an absent channel is not created.
EnsureChannel_never_creates(T, msg, F) == T

\* Lines 646-664: the channel is created when absent; an insert error is logged.
EnsureChannel(T, msg, F) ==
    LET row == [id |-> msg.channel_id, type |-> msg.chat_type] IN
    IF \E c \in T.channels : c.id = msg.channel_id THEN T
    ELSE IF "channel_insert" \in F \/ ~ChannelInsertOk(T, row) THEN T
    ELSE [T EXCEPT !.channels = @ \cup {row}]

\* Lines 666-684: the chat is created when absent; an insert error is logged.
EnsureChat(T, msg, F) ==
    LET row == [id |-> msg.chat_id, channel_id |-> msg.channel_id] IN
    IF \E c \in T.chats : c.id = msg.chat_id THEN T
    ELSE IF "chat_insert" \in F \/ ~ChatInsertOk(T, row) THEN T
    ELSE [T EXCEPT !.chats = @ \cup {row}]

\* "Klient " transliterates the literal of lines 863-917.
\* Lines 855-922: full_name of a Client made from a message event.
MessageClientName(msg) ==
    LET byChat == IF msg.chat_type = "whatsapp" THEN <<"WhatsApp ">> \o msg.chat_id
                  ELSE <<"Klient ">> \o msg.chat_id
        byPhone ==
            IF IsSome(msg.client_phone) /\ trim(Unwrap(msg.client_phone)) # <<>>
            THEN <<"Klient ">> \o trim(Unwrap(msg.client_phone))
            ELSE byChat
    IN  IF IsSome(msg.client_name) /\ trim(Unwrap(msg.client_name)) # <<>>
        THEN trim(Unwrap(msg.client_name))
        ELSE byPhone

\* Lines 924-964.
NewClientFromMessage(T, msg, t, bot_user_id) ==
    [id |-> NextClientId(T),
     full_name |-> MessageClientName(msg),
     email |-> GeneratedEmail(msg.chat_id, t),
     phone |-> IF IsSome(msg.client_phone) /\ trim(Unwrap(msg.client_phone)) # <<>>
               THEN Some(trim(Unwrap(msg.client_phone)))
               ELSE None,
     wazzup_chat |-> Some(msg.chat_id),
     responsible_user_id |-> bot_user_id]

\* Lines 829-843: a Client carries the chat id of the event.
ClientExistsForChat(T, chat_id) == \E c \in T.clients : c.wazzup_chat = Some(chat_id)

\* fn create_client_from_message. The lookups leave through `?`, the insert error
\* is logged. create_wazzup_contact (lines 996-1059) calls the provider only and
\* logs its failure: it changes no table.
create_client_from_message(T, msg, F, t, bot_user_id) ==
    LET row == NewClientFromMessage(T, msg, t, bot_user_id) IN
    IF "client_lookup" \in F THEN Propagated(T, "client_lookup")
    ELSE IF ClientExistsForChat(T, msg.chat_id) THEN Result(T, "client_exists")
    ELSE IF "find_bot_user" \in F THEN Propagated(T, "find_bot_user")
    ELSE IF "client_insert" \in F \/ ~ClientInsertOk(T, row)
         THEN Result(T, "client_insert_failed")
    ELSE Result([T EXCEPT !.clients = @ \cup {row}], "client_created")

\* Mutant of NewMessage: the id is stored without its last character.
NewMessage_truncated_id(msg) ==
    [id |-> SubSeq(msg.message_id, 1, Len(msg.message_id) - 1),
     content |-> content(msg),
     chat_id |-> msg.chat_id,
     is_inbound |-> Some(determine_message_direction(msg)),
     is_echo |-> msg.is_echo,
     direction_status |-> msg.status]

\* Lines 768-778.
NewMessage(msg) ==
    [id |-> msg.message_id,
     content |-> content(msg),
     chat_id |-> msg.chat_id,
     is_inbound |-> Some(determine_message_direction(msg)),
     is_echo |-> msg.is_echo,
     direction_status |-> msg.status]

\* Lines 780-811: the insert; its error is logged and the event dropped.
SaveMessage(T, msg, F) ==
    IF "message_insert" \in F \/ ~MessageInsertOk(T, NewMessage(msg))
    THEN Result(T, "insert_failed")
    ELSE Result([T EXCEPT !.messages = @ \cup {NewMessage(msg)}], "stored")

\* Lines 646-688, 767-811: what follows the two duplicate checks, up to the insert.
ReconcileAndSave(T, msg, F, t, bot_user_id) ==
    LET T1 == EnsureChannel(T, msg, F)
        T2 == EnsureChat(T1, msg, F)
        made == create_client_from_message(T2, msg, F, t, bot_user_id)
    IN  IF "channel_lookup" \in F THEN Propagated(T, "channel_lookup")
        ELSE IF "chat_lookup" \in F THEN Propagated(T1, "chat_lookup")
        ELSE IF made.err # "" THEN made
        ELSE SaveMessage(made.db, msg, F)

\* Lines 499-811 without the bot interaction: the body of the loop of
\* handle_messages for one message event, up to and including the insert.
handle_message(T, msg, F, t, bot_user_id) ==
    IF ~MessageIdsValid(msg) THEN Result(T, "invalid")
    ELSE IF "message_id_lookup" \in F THEN Propagated(T, "message_id_lookup")
    ELSE IF MessageExistsById(T, msg) THEN Result(T, "dup_id")
    ELSE IF "message_content_lookup" \in F THEN Propagated(T, "message_content_lookup")
    ELSE IF DuplicateByContent(T, msg) THEN Result(T, "dup_content")
    ELSE ReconcileAndSave(T, msg, F, t, bot_user_id)

\* Mutant of BotRouted: the direction is not looked at.
BotRouted_any_direction(saved, msg) == saved.outcome = "stored"

\* Lines 780-805: handle_bot_interaction is called in the Ok arm of the insert,
\* for an inbound message.
BotRouted(saved, msg) == saved.outcome = "stored" /\ determine_message_direction(msg)

\* ------------------------------------------------------- bot interaction
\* What handle_bot_interaction did for one stored inbound message:
\*   routed    handle_bot_interaction was called
\*   stop      why it returned before the callback ("" if it did not)
\*   hook      send_hook_request was called
\*   callback  how the callback ended
\*   relay     how send_bot_message ended ("none" if not called)
\*   transfer  how transfer_to_random_manager ended ("none" if not called)
NoBot ==
    [routed |-> FALSE, stop |-> "", hook |-> FALSE, callback |-> "none",
     relay |-> "none", transfer |-> "none", request |-> None]

BotStopped(why) == [NoBot EXCEPT !.routed = TRUE, !.stop = why]

\* fn send_hook_request: the ways the POST can end. "success", "error" and
\* "other_status" are 2xx answers whose body parses, named by their status field;
\* the others are the three Err returns (send error or 30 s timeout, non-2xx
\* status, body that does not parse).
CallbackOutcomes ==
    {"success", "error", "other_status", "transport_failure", "timeout", "http_error",
     "unparsable"}

\* fn send_hook_request returns Err.
CallbackFailed(cb) == cb \in {"transport_failure", "timeout", "http_error", "unparsable"}

\* Mutant of select_random_manager: every user that is no bot may be picked.
select_random_manager_any_human(T) == {u \in T.users : u.role # "bot"}

\* fn select_random_manager: the users fastrand may pick.
select_random_manager(T) == {u \in T.users : u.role = "manager"}

\* Mutant of get_bot_hook_url: a bot without a hook gets a default one.
get_bot_hook_url_default(user) ==
    IF user.role = "bot" THEN (IF IsSome(user.hook) THEN user.hook ELSE Some("default"))
    ELSE None

\* fn get_bot_hook_url for a user that exists.
get_bot_hook_url(user) == IF user.role = "bot" THEN user.hook ELSE None

\* Mutant of transfer_to_random_manager: without a manager the Client is left
\* with no assignee.
transfer_to_random_manager_unassigns(T, client_id, F) ==
    IF "manager_lookup" \in F THEN {<<T, "error">>}
    ELSE IF select_random_manager(T) = {}
    THEN {<<[T EXCEPT !.clients =
                {IF c.id = client_id THEN [c EXCEPT !.responsible_user_id = None] ELSE c :
                    c \in @}],
            "no_manager">>}
    ELSE IF "client_reload" \in F THEN {<<T, "error">>}
    ELSE IF ~\E c \in T.clients : c.id = client_id THEN {<<T, "client_not_found">>}
    ELSE IF "client_update" \in F THEN {<<T, "error">>}
    ELSE {<<[T EXCEPT !.clients =
                {IF c.id = client_id
                 THEN [c EXCEPT !.responsible_user_id = Some(manager.id)]
                 ELSE c : c \in @}],
            "transferred">> : manager \in select_random_manager(T)}

\* fn transfer_to_random_manager: the (tables, outcome) pairs it can end with.
transfer_to_random_manager(T, client_id, F) ==
    IF "manager_lookup" \in F THEN {<<T, "error">>}
    ELSE IF select_random_manager(T) = {} THEN {<<T, "no_manager">>}
    ELSE IF "client_reload" \in F THEN {<<T, "error">>}
    ELSE IF ~\E c \in T.clients : c.id = client_id THEN {<<T, "client_not_found">>}
    ELSE IF "client_update" \in F THEN {<<T, "error">>}
    ELSE {<<[T EXCEPT !.clients =
                {IF c.id = client_id
                 THEN [c EXCEPT !.responsible_user_id = Some(manager.id)]
                 ELSE c : c \in @}],
            "transferred">> : manager \in select_random_manager(T)}

\* The message field of the bot's answer.
BotReply == "reply"

\* Mutant of SendMessageRequest: the Client is named as the sender.
SendMessageRequest_from_client(T, chat_id, message_text, sender_id) ==
    LET chat == CHOOSE c \in T.chats : c.id = chat_id
        channel_info == CHOOSE ch \in T.channels : ch.id = chat.channel_id
    IN  [chat_id |-> Some(chat_id), channel_id |-> Some(chat.channel_id),
         chat_type |-> Some(channel_info.type), sender_id |-> 0,
         text |-> Some(message_text)]

\* Lines 1201-1210: the request send_bot_message hands to send_message, for a
\* chat that is stored with its channel.
SendMessageRequest(T, chat_id, message_text, sender_id) ==
    LET chat == CHOOSE c \in T.chats : c.id = chat_id
        channel_info == CHOOSE ch \in T.channels : ch.id = chat.channel_id
    IN  [chat_id |-> Some(chat_id), channel_id |-> Some(chat.channel_id),
         chat_type |-> Some(channel_info.type), sender_id |-> sender_id,
         text |-> Some(message_text)]

\* fn send_bot_message: how it ends; relay_ok is the provider's answer.
send_bot_message(T, chat_id, F, relay_ok) ==
    IF "relay_chat_lookup" \in F THEN "error"
    ELSE IF ~\E c \in T.chats : c.id = chat_id THEN "chat_not_found"
    ELSE IF ~\E c \in T.chats : c.id = chat_id /\ \E ch \in T.channels : ch.id = c.channel_id
         THEN "channel_not_found"
    ELSE IF relay_ok THEN "sent"
    ELSE "send_failed"

\* Lines 1112-1157: what follows the callback, for the Client client.
AfterCallback(T, message, client, F, cb, relay_ok) ==
    LET called == [NoBot EXCEPT !.routed = TRUE, !.hook = TRUE, !.callback = cb] IN
    IF cb = "success"
    THEN LET relay == send_bot_message(T, message.chat_id, F, relay_ok) IN
         {<<T, [called EXCEPT
                  !.relay = relay,
                  !.request =
                      IF relay \in {"sent", "send_failed"}
                      THEN Some(SendMessageRequest(T, message.chat_id, BotReply,
                                                   Unwrap(client.responsible_user_id)))
                      ELSE None]>>}
    ELSE IF cb = "error" \/ CallbackFailed(cb)
    THEN {<<tr[1], [called EXCEPT !.transfer = tr[2]]>> :
             tr \in transfer_to_random_manager(T, client.id, F)}
    ELSE {<<T, called>>}

\* Lines 1084-1157: what follows the Client lookup, for the Client it returned.
BotForClient(T, message, client, F) ==
    LET uid == client.responsible_user_id
        found == {u \in T.users : IsSome(uid) /\ u.id = Unwrap(uid)}
    IN  IF ~IsSome(uid) THEN {<<T, BotStopped("no_responsible")>>}
        ELSE IF "bot_user_lookup" \in F THEN {<<T, BotStopped("user_lookup_error")>>}
        ELSE IF found = {} THEN {<<T, BotStopped("user_not_found")>>}
        ELSE IF \E u \in found : ~IsSome(get_bot_hook_url(u))
             THEN {<<T, BotStopped("not_bot")>>}
        ELSE UNION {AfterCallback(T, message, client, F, cb, relay_ok) :
                       cb \in CallbackOutcomes, relay_ok \in BOOLEAN}

\* fn handle_bot_interaction: the (tables, bot record) pairs it can end with.
\* Every Err it returns is logged by its caller (lines 795-804).
handle_bot_interaction(T, message, F) ==
    LET linked == {c \in T.clients : c.wazzup_chat = Some(message.chat_id)} IN
    IF "bot_client_lookup" \in F THEN {<<T, BotStopped("client_lookup_error")>>}
    ELSE IF linked = {} THEN {<<T, BotStopped("no_client")>>}
    ELSE UNION {BotForClient(T, message, client, F) : client \in linked}

\* Lines 1073-1092: the returns of handle_bot_interaction that are an Err (the
\* two lookups that use `?`; every other failure is logged inside).
BotFailed(bot) == bot.stop \in {"client_lookup_error", "user_lookup_error", "user_not_found"}

\* Mutant of RouteToBot: the Err of handle_bot_interaction leaves through `?`.
RouteToBot_propagating(saved, msg, F) ==
    IF BotRouted(saved, msg)
    THEN {[db |-> e[1], outcome |-> saved.outcome,
           err |-> IF BotFailed(e[2]) THEN "handle_bot_interaction" ELSE saved.err,
           bot |-> e[2]] :
             e \in handle_bot_interaction(saved.db, NewMessage(msg), F)}
    ELSE {[db |-> saved.db, outcome |-> saved.outcome, err |-> saved.err, bot |-> NoBot]}

\* Lines 793-805: handle_bot_interaction is called for a stored inbound message
\* and its Err is logged. The results one message event can end with: the tables,
\* the branch taken, the error that left through `?`, the bot interaction.
RouteToBot(saved, msg, F) ==
    IF BotRouted(saved, msg)
    THEN {[db |-> e[1], outcome |-> saved.outcome, err |-> saved.err, bot |-> e[2]] :
             e \in handle_bot_interaction(saved.db, NewMessage(msg), F)}
    ELSE {[db |-> saved.db, outcome |-> saved.outcome, err |-> saved.err, bot |-> NoBot]}

\* --------------------------------------------------------------- main database
\* The companies table. No company has id 4. Ingestion never changes the table.
Companies ==
    {[id |-> 1, database_name |-> <<"t", "1">>, is_active |-> Some(TRUE)],
     [id |-> 2, database_name |-> <<"t", "2">>, is_active |-> Some(FALSE)],
     [id |-> 3, database_name |-> <<"t", "3">>, is_active |-> None],
     [id |-> 5, database_name |-> <<"t", "-", "5">>, is_active |-> Some(TRUE)]}

DbNames == {c.database_name : c \in Companies}

\* Mutant of find_company: an unknown id falls back to some company.
find_company_fallback(company_id) ==
    IF \E c \in Companies : c.id = company_id
    THEN Some(CHOOSE c \in Companies : c.id = company_id)
    ELSE Some(CHOOSE c \in Companies : TRUE)

\* main::companies::Entity::find_by_id
find_company(company_id) ==
    IF \E c \in Companies : c.id = company_id
    THEN Some(CHOOSE c \in Companies : c.id = company_id)
    ELSE None

\* Mutant of Inactive: only an explicit false counts as inactive.
Inactive_false_only(company) == company.is_active = Some(FALSE)

\* Line 189: company.is_active != Some(true)
Inactive(company) == company.is_active # Some(TRUE)

\* Mutant of TooMany: the ceiling itself is refused.
TooMany_inclusive(events) == IsSome(events) /\ Unwrap(events) >= MaxEvents

\* Lines 195-207: the length of an Option<Vec<_>> that is Some exceeds the ceiling.
TooMany(events) == IsSome(events) /\ Unwrap(events) > MaxEvents

\* fn get_client_db_conn, line 167: the database name is made of alphanumeric
\* characters and underscores.
DatabaseNameValid(name) ==
    \A i \in 1..Len(name) : is_alphanumeric(name[i]) \/ name[i] = "_"

\* fn handle_webhook, lines 184-263: what happens before the first item. F: the
\* calls that fail (the company lookup, Database::connect). The result is the
\* value returned ("pending" when the items are processed next), the tenant
\* connection opened, and err, the call whose error left through `?` ("" if none).
handle_webhook_start(company_id, webhook, F) ==
    LET found == find_company(company_id)
        company == Unwrap(found)
        Returns(r) == [result |-> r, client_db |-> None, err |-> ""]
        Fails(at) == [result |-> "DbError", client_db |-> None, err |-> at]
    IN  IF "company_lookup" \in F THEN Fails("company_lookup")
        ELSE IF ~IsSome(found) THEN Returns("NotFound")
        ELSE IF Inactive(company) THEN Returns("Ok")
        ELSE IF TooMany(webhook.contacts) THEN Returns("InvalidInput")
        ELSE IF TooMany(webhook.messages) THEN Returns("InvalidInput")
        ELSE IF webhook.test = Some(TRUE) THEN Returns("Ok")
        ELSE IF ~DatabaseNameValid(company.database_name) THEN Returns("InvalidInput")
        ELSE IF "connect" \in F THEN Fails("connect")
        ELSE [result |-> "pending", client_db |-> Some(company.database_name), err |-> ""]

\* ------------------------------------------------------------------- inputs
\* A webhook body: test, and the lengths of contacts and messages (None when the
\* field is absent). The items themselves are drawn when their iteration runs:
\* the loops read item i in iteration i only.
Webhook(test, contacts, messages) ==
    [test |-> test, contacts |-> contacts, messages |-> messages]

Request(company_id, webhook) == [company_id |-> company_id, webhook |-> webhook]

\* The requests sent: short batches, batches at and just above the ceiling, test
\* probes (api/webhooks.rs:199-203 sends test without arrays) with and without
\* arrays, to the active tenant 1, to the inactive tenants 2 and 3, to the
\* unknown tenant 4 and to tenant 5, whose database name is refused.
Requests ==
    {Request(1, Webhook(None, Some(MaxBatchLen), Some(MaxBatchLen))),
     Request(1, Webhook(None, Some(MaxEvents), Some(MaxEvents))),
     Request(1, Webhook(None, Some(MaxEvents + 1), None)),
     Request(1, Webhook(None, Some(1), Some(MaxEvents + 1))),
     Request(1, Webhook(Some(TRUE), None, None)),
     Request(1, Webhook(Some(TRUE), Some(1), Some(1))),
     Request(1, Webhook(Some(TRUE), None, Some(MaxEvents + 1))),
     Request(2, Webhook(None, Some(1), Some(1))),
     Request(2, Webhook(None, Some(MaxEvents + 1), None)),
     Request(3, Webhook(None, Some(1), Some(1))),
     Request(4, Webhook(None, Some(1), Some(1))),
     Request(4, Webhook(Some(TRUE), None, None)),
     Request(5, Webhook(None, Some(1), None))}

Contact(contact_id, name, phone, email, chat_id) ==
    [contact_id |-> contact_id, name |-> name, phone |-> phone, email |-> email,
     chat_id |-> chat_id]

\* A contact event whose id fails validate_id.
InvalidContact == Contact(<<"k", "!">>, None, None, None, None)

ContactPool ==
    {Contact(<<"k", "1">>, Some(<<"A", "l">>), None, Some(<<"a", "@", "b">>),
             Some(<<"c", "1">>)),
     InvalidContact}

\* Contact events with the email absent, blank, without "@" or valid, and the
\* chat id absent, blank, plain or padded with whitespace.
ReplayPool ==
    {Contact(<<"k", "1">>, None, None, email, chat_id) :
        email \in {None, Some(<<" ">>), Some(<<"a", "b">>), Some(<<"a", "@", "b">>)},
        chat_id \in {None, Some(<<" ">>), Some(<<"c", "1">>),
                     Some(<<" ", "c", "1", " ">>)}}

Message(message_id, channel_id, type, text, client_name, is_echo, status) ==
    [message_id |-> message_id, channel_id |-> channel_id, chat_type |-> "whatsapp",
     chat_id |-> <<"c", "1">>, type |-> type, text |-> text, content_uri |-> None,
     client_name |-> client_name, client_phone |-> None, is_echo |-> is_echo,
     status |-> status]

\* The channel id of the events, a canonical UUID string:
\* 1b2c0a00-0000-4000-a000-00000000000c
Ch1 ==
    <<"1", "b", "2", "c", "0", "a", "0", "0", "-", "0", "0", "0", "0", "-", "4", "0", "0", "0",
      "-", "a", "0", "0", "0", "-", "0", "0", "0", "0", "0", "0", "0", "0", "0", "0", "0", "c">>

\* A message event whose message id fails validate_id.
InvalidMessage == Message(<<"m", "!">>, Ch1, "text", Some(<<"h", "i">>), None, Some(FALSE), None)

\* Two inbound texts "hi" with different ids; an outbound text with the id of the
\* first; two missing_call events with different ids and the
\* same blank client name, one of unknown direction, one inbound by status; an
\* event with an invalid id.
MessagePool ==
    {Message(<<"m", "1">>, Ch1, "text", Some(<<"h", "i">>), None, Some(FALSE), None),
     Message(<<"m", "2">>, Ch1, "text", Some(<<"h", "i">>), None, Some(FALSE), None),
     Message(<<"m", "1">>, Ch1, "text", Some(<<"y", "o">>), None, Some(TRUE), None),
     Message(<<"m", "1">>, Ch1, "missing_call", None, Some(<<" ">>), None, None),
     Message(<<"m", "2">>, Ch1, "missing_call", None, Some(<<" ">>), None, Some("inbound")),
     InvalidMessage}

\* An inbound event with the given type, text and attachment URI.
MessageWithContent(type, text, content_uri) ==
    [Message(<<"m", "1">>, Ch1, type, text, None, Some(FALSE), None)
        EXCEPT !.content_uri = content_uri]

\* Message events for the content: an image and a missing_call, each with the
\* text absent, blank or " hi " and the attachment URI absent, blank or "u ".
ContentPool ==
    {MessageWithContent(type, text, content_uri) :
        type \in {"image", "missing_call"},
        text \in {None, Some(<<" ">>), Some(<<" ", "h", "i", " ">>)},
        content_uri \in {None, Some(<<" ">>), Some(<<"u", " ">>)}}

\* A message event with the given three ids.
MessageWithIds(message_id, channel_id, chat_id) ==
    [Message(message_id, channel_id, "text", Some(<<"h", "i">>), None, Some(FALSE), None)
        EXCEPT !.chat_id = chat_id]

\* An id one character longer than validate_id accepts.
LongId == [i \in 1..(MaxIdLen + 1) |-> "a"]

\* An id of the greatest length validate_id accepts.
FullId == [i \in 1..MaxIdLen |-> "a"]

\* Message events for the id check: each of the three ids in turn empty, too
\* long, or with a character validate_id refuses, and two events whose ids pass.
IdCheckPool ==
    {MessageWithIds(<<"m", "1">>, Ch1, <<"c", "1">>),
     MessageWithIds(FullId, Ch1, <<"c", "1">>),
     MessageWithIds(<<>>, Ch1, <<"c", "1">>),
     MessageWithIds(LongId, Ch1, <<"c", "1">>),
     MessageWithIds(<<"m", "!">>, Ch1, <<"c", "1">>),
     MessageWithIds(<<"m", "1">>, <<>>, <<"c", "1">>),
     MessageWithIds(<<"m", "1">>, LongId, <<"c", "1">>),
     MessageWithIds(<<"m", "1">>, <<"c", "h", " ">>, <<"c", "1">>),
     MessageWithIds(<<"m", "1">>, Ch1, <<>>),
     MessageWithIds(<<"m", "1">>, Ch1, LongId),
     MessageWithIds(<<"m", "1">>, Ch1, <<"c", "+", "1">>)}

\* An inbound text of the same channel and chat whose chat type is "telegram".
TelegramMessage ==
    [Message(<<"m", "3">>, Ch1, "text", Some(<<"o", "k">>), None, Some(FALSE), None)
        EXCEPT !.chat_type = "telegram"]

ContactFaults == {"contact_email_lookup", "contact_chat_lookup", "find_bot_user", "client_insert"}

\* The storage calls that can fail while one message event is processed.
MessageFaults ==
    {"message_id_lookup", "message_content_lookup", "channel_lookup", "channel_insert",
     "chat_lookup", "chat_insert", "client_lookup", "find_bot_user", "client_insert",
     "message_insert", "bot_client_lookup", "bot_user_lookup", "relay_chat_lookup",
     "manager_lookup", "client_reload", "client_update"}

\* At most one storage call fails per item.
FaultSets(points) == {{}} \cup {{p} : p \in points}

User(id, role, hook) == [id |-> id, role |-> role, hook |-> hook]

\* The users tables a tenant database may hold. Ingestion never changes them.
UserTables ==
    {{User(1, "bot", Some("hook")), User(2, "manager", None), User(3, "quality_control", None)},
     {User(1, "bot", Some("hook")), User(4, "admin", None)},
     {User(1, "bot", None), User(2, "manager", None)},
     {User(2, "manager", None)}}

EmptyDb(users) ==
    [channels |-> {}, chats |-> {}, clients |-> {}, messages |-> {}, users |-> users]

\* -------------------------------------------------------------------- state
\* ------------------------------------------------------------ binary ids
\* A Uuid is its 16 bytes (uuid::Uuid wraps [u8; 16]).
Uuid(b) == [bytes |-> b]

\* Uuid::nil()
UuidNil == Uuid([i \in 1..16 |-> 0])

\* Uuid::from_slice: Ok for 16 bytes.
UuidOk(u) == [ok |-> TRUE, uuid |-> u]

\* The DbErr::Custom returns.
UuidErr == [ok |-> FALSE, uuid |-> UuidNil]

\* fn uuid_to_bytes: uuid.as_bytes().to_vec()
uuid_to_bytes(uuid) == [i \in 1..16 |-> uuid.bytes[i]]

\* Mutant of uuid_from_bytes: the 8 bytes are put first and the zeros last.
uuid_from_bytes_pads_after(b) ==
    IF Len(b) = 16 THEN UuidOk(Uuid(b))
    ELSE IF Len(b) = 8 THEN UuidOk(Uuid(b \o [i \in 1..8 |-> 0]))
    ELSE IF Len(b) = 0 THEN UuidOk(UuidNil)
    ELSE UuidErr

\* fn uuid_from_bytes
uuid_from_bytes(b) ==
    IF Len(b) = 16 THEN UuidOk(Uuid(b))
    ELSE IF Len(b) = 8
         THEN LET padded == [i \in 1..16 |-> IF i <= 8 THEN 0 ELSE b[i - 8]]
              IN  UuidOk(Uuid(padded))
    ELSE IF Len(b) = 0 THEN UuidOk(UuidNil)
    ELSE UuidErr

\* The byte string of n bytes that starts with `first` and goes up by `step`.
Bytes(n, first, step) == [i \in 1..n |-> (first + (i - 1) * step) % 256]

\* The byte strings read: every length up to MaxBytesLen, a few contents each.
ByteInputs ==
    {Bytes(n, first, step) : n \in 0..MaxBytesLen, first \in {0, 1, 255}, step \in {0, 1, 17}}

\* The ids written.
Uuids == {Uuid(b) : b \in {x \in ByteInputs : Len(x) = 16}}

\* ------------------------------------------------------------ connection pool
\* The logical names get_connection is called with: two tenants, the empty
\* name, and a name with a character outside the allow-list.
PoolNames == {<<"t", "1">>, <<"t", "2">>, <<>>, <<"t", "-", "5">>}

\* The cache with no entry: HashMap::new().
NoPools == [name \in PoolNames |-> None]

\* fn get_connection, line 27: chars().all(alphanumeric or '_').
PoolNameValid(database_name) ==
    \A i \in 1..Len(database_name) :
        is_alphanumeric(database_name[i]) \/ database_name[i] = "_"

\* What one call did: the value returned (result, handle), whether the cache was
\* read, how the probe of the cached handle ended ("none" if it was not probed),
\* how Database::connect ended ("none" if it was not called), and the cache, the
\* live connections and the number of connections opened after the call.
PoolReturn(op, name, result, handle, looked_up, probe, connect, P, A, n) ==
    [ret |-> [op |-> op, name |-> name, result |-> result, handle |-> handle,
              looked_up |-> looked_up, probe |-> probe, connect |-> connect],
     pools |-> P, alive |-> A, opened |-> n]

\* Mutant of get_connection: a cached live handle is not reused.
get_connection_never_reuses(P, A, n, database_name, connect_ok) ==
    IF ~PoolNameValid(database_name)
    THEN PoolReturn("get_connection", database_name, "InvalidInput", None,
                    FALSE, "none", "none", P, A, n)
    ELSE IF ~connect_ok
    THEN PoolReturn("get_connection", database_name, "DbError", None,
                    TRUE, "none", "failed", P, A, n)
    ELSE PoolReturn("get_connection", database_name, "Ok", Some(n + 1),
                    TRUE, "none", "ok",
                    [P EXCEPT ![database_name] = Some(n + 1)], A \cup {n + 1}, n + 1)

\* Mutant of get_connection: when the new connection cannot be made, the cached
\* dead handle is returned.
get_connection_returns_dead(P, A, n, database_name, connect_ok) ==
    LET cached == P[database_name]
        probe == IF ~IsSome(cached) THEN "none"
                 ELSE IF Unwrap(cached) \in A THEN "alive" ELSE "dead"
    IN  IF ~PoolNameValid(database_name)
        THEN PoolReturn("get_connection", database_name, "InvalidInput", None,
                        FALSE, "none", "none", P, A, n)
        ELSE IF probe = "alive"
        THEN PoolReturn("get_connection", database_name, "Ok", cached,
                        TRUE, probe, "none", P, A, n)
        ELSE IF ~connect_ok
        THEN PoolReturn("get_connection", database_name,
                        IF probe = "dead" THEN "Ok" ELSE "DbError",
                        IF probe = "dead" THEN cached ELSE None,
                        TRUE, probe, "failed", P, A, n)
        ELSE PoolReturn("get_connection", database_name, "Ok", Some(n + 1),
                        TRUE, probe, "ok",
                        [P EXCEPT ![database_name] = Some(n + 1)], A \cup {n + 1}, n + 1)

\* Mutant of get_connection: a dead cached handle is dropped from the cache when
\* the new connection cannot be made.
get_connection_evicts_dead(P, A, n, database_name, connect_ok) ==
    LET cached == P[database_name]
        probe == IF ~IsSome(cached) THEN "none"
                 ELSE IF Unwrap(cached) \in A THEN "alive" ELSE "dead"
    IN  IF ~PoolNameValid(database_name)
        THEN PoolReturn("get_connection", database_name, "InvalidInput", None,
                        FALSE, "none", "none", P, A, n)
        ELSE IF probe = "alive"
        THEN PoolReturn("get_connection", database_name, "Ok", cached,
                        TRUE, probe, "none", P, A, n)
        ELSE IF ~connect_ok
        THEN PoolReturn("get_connection", database_name, "DbError", None,
                        TRUE, probe, "failed", [P EXCEPT ![database_name] = None], A, n)
        ELSE PoolReturn("get_connection", database_name, "Ok", Some(n + 1),
                        TRUE, probe, "ok",
                        [P EXCEPT ![database_name] = Some(n + 1)], A \cup {n + 1}, n + 1)

\* fn ClientDbPoolManager::get_connection, run without another call in between.
\* P: the cache, A: the connections a ping succeeds on, n: connections opened so
\* far (the next one is n + 1), connect_ok: Database::connect succeeds.
get_connection(P, A, n, database_name, connect_ok) ==
    LET cached == P[database_name]
        probe == IF ~IsSome(cached) THEN "none"
                 ELSE IF Unwrap(cached) \in A THEN "alive" ELSE "dead"
    IN  IF ~PoolNameValid(database_name)
        THEN PoolReturn("get_connection", database_name, "InvalidInput", None,
                        FALSE, "none", "none", P, A, n)
        ELSE IF probe = "alive"
        THEN PoolReturn("get_connection", database_name, "Ok", cached,
                        TRUE, probe, "none", P, A, n)
        ELSE IF ~connect_ok
        THEN PoolReturn("get_connection", database_name, "DbError", None,
                        TRUE, probe, "failed", P, A, n)
        ELSE PoolReturn("get_connection", database_name, "Ok", Some(n + 1),
                        TRUE, probe, "ok",
                        [P EXCEPT ![database_name] = Some(n + 1)], A \cup {n + 1}, n + 1)

\* fn get_client_db_conn of the webhook handler, lines 162-174, at the level of
\* connections: the name check, then Database::connect; the cache is not used.
get_client_db_conn(P, A, n, database_name, connect_ok) ==
    IF ~DatabaseNameValid(database_name)
    THEN PoolReturn("get_client_db_conn", database_name, "InvalidInput", None,
                    FALSE, "none", "none", P, A, n)
    ELSE IF ~connect_ok
    THEN PoolReturn("get_client_db_conn", database_name, "DbError", None,
                    FALSE, "none", "failed", P, A, n)
    ELSE PoolReturn("get_client_db_conn", database_name, "Ok", Some(n + 1),
                    FALSE, "none", "ok", P, A \cup {n + 1}, n + 1)

\* fn remove_connection.
remove_connection(P, A, n, database_name) ==
    PoolReturn("remove_connection", database_name, "Ok", None, FALSE, "none", "none",
               [P EXCEPT ![database_name] = None], A, n)

\* fn close_all: the cache is drained and every drained connection closed.
close_all(P, A, n) ==
    PoolReturn("close_all", <<>>, "Ok", None, FALSE, "none", "none",
               NoPools, A \ {Unwrap(P[name]) : name \in {x \in PoolNames : IsSome(P[x])}}, n)

\* fn get_active_databases: the keys of the cache.
get_active_databases(P) == {name \in PoolNames : IsSome(P[name])}

\* fn active_connections_count: pools.len().
active_connections_count(P) == Cardinality(get_active_databases(P))

\* ------------------------------------- the pool under concurrent callers
\* The tasks that call the pool concurrently.
Tasks == {"a", "b"}

\* The names the concurrent calls are made with: a tenant and a refused name.
LockNames == {<<"t", "1">>, <<"t", "-", "5">>}

\* A task's call: pc is where the task is in it ("idle" before the first call
\* and after a return), op and name what was called, seen the handle pools.get
\* returned, probe how the ping of it ended, connect how Database::connect ended,
\* result and handle what the call returned, n the calls the task has started.
Call(pc_, op, name, seen, probe, connect, result_, handle, n) ==
    [pc |-> pc_, op |-> op, name |-> name, seen |-> seen, probe |-> probe,
     connect |-> connect, result |-> result_, handle |-> handle, n |-> n]

IdleCall == Call("idle", "none", <<>>, None, "none", "none", "", None, 0)

\* tokio::sync::RwLock: read() is granted while no task holds the write lock.
CanRead(R, W) == W = None

\* tokio::sync::RwLock: write() is granted while no task holds either lock.
CanWrite(R, W) == W = None /\ R = {}

\* Mutant of ReleaseRead: the read guard is kept after the block.
ReleaseRead_keeps(R, p) == R

\* pool_manager.rs:43: the read guard goes out of scope at the end of the block
\* (and at the return of line 38).
ReleaseRead(R, p) == R \ {p}

\* ----------------------------------- batches of one tenant run concurrently
\* The batches processed concurrently.
Batches == {"x", "y"}

\* A batch of one message event: pc is the storage call it makes next ("idle"
\* before the request, "done" after the loop), msg the event, bot_user_id what
\* find_bot_user returned, created whether it inserted a Client, outcome the
\* branch the event took, bot the bot interaction.
IdleTask ==
    [pc |-> "idle", msg |-> None, bot_user_id |-> None, created |-> FALSE, outcome |-> "",
     bot |-> NoBot]

\* The message events of the concurrent batches, all of chat c1: two inbound
\* texts "hi" with different ids, an outbound text "yo" with the id of the
\* first, and the Telegram text "ok".
RacePool ==
    {Message(<<"m", "1">>, Ch1, "text", Some(<<"h", "i">>), None, Some(FALSE), None),
     Message(<<"m", "2">>, Ch1, "text", Some(<<"h", "i">>), None, Some(FALSE), None),
     Message(<<"m", "1">>, Ch1, "text", Some(<<"y", "o">>), None, Some(TRUE), None),
     TelegramMessage}

VARIABLES
    client_dbs,     \* database name -> tenant database
    pc,             \* "idle", or the loop handle_webhook is in: "contacts", "messages"
    contacts_left,  \* contact events not yet processed
    messages_left,  \* message events not yet processed
    client_db,      \* the tenant connection the request opened, None if none
    result,         \* what handle_webhook returned; "pending" while it runs
    fx,             \* what the last step did
    pools,          \* ClientDbPoolManager.pools: logical name -> cached handle
    alive,          \* the connections a ping succeeds on
    opened,         \* the number of connections opened so far
    ret,            \* what the last call on the pool did
    uuid_in,        \* the Uuid last written with uuid_to_bytes, None if none
    bytes,          \* the bytes last written or read
    decoded,        \* what uuid_from_bytes returned for them
    readers,        \* the tasks that hold the read lock of ClientDbPoolManager.pools
    writer,         \* the task that holds its write lock, None if none
    call,           \* task -> the call on the pool the task is in, or made last
    task            \* batch -> the message event it processes and how far it is

pool_vars == <<pools, alive, opened, ret>>

pipeline_vars == <<client_dbs, pc, contacts_left, messages_left, client_db, result, fx>>

codec_vars == <<uuid_in, bytes, decoded>>

lock_vars == <<readers, writer, call>>

race_vars == <<task>>

vars == <<client_dbs, pc, contacts_left, messages_left, client_db, result, fx,
          pools, alive, opened, ret, uuid_in, bytes, decoded, readers, writer, call, task>>

\* The record of a step: its kind ("start", "contact", "message"), the input it
\* handled (the request for "start", the event otherwise), the branch taken, the
\* storage call whose error left through `?`, and the bot interaction.
Effect(kind, event, outcome, err, bot) ==
    [kind |-> kind, event |-> event, outcome |-> outcome, err |-> err, bot |-> bot]

\* The state before the first request, for tenants with the given users table.
InitWith(users) ==
    /\ client_dbs = [d \in DbNames |-> EmptyDb(users)]
    /\ pc = "idle"
    /\ contacts_left = 0
    /\ messages_left = 0
    /\ client_db = None
    /\ result = "none"
    /\ fx = Effect("none", None, "", "", NoBot)
    /\ pools = NoPools
    /\ alive = {}
    /\ opened = 0
    /\ ret = PoolReturn("none", <<>>, "", None, FALSE, "none", "none", NoPools, {}, 0).ret
    /\ uuid_in = None
    /\ bytes = <<>>
    /\ decoded = uuid_from_bytes(<<>>)
    /\ readers = {}
    /\ writer = None
    /\ call = [p \in Tasks |-> IdleCall]
    /\ task = [b \in Batches |-> IdleTask]

Init == \E users \in UserTables : InitWith(users)

Len0(events) == IF IsSome(events) THEN Unwrap(events) ELSE 0

\* Lines 265-275: the loop to run next, given what is left.
NextPc(cl, ml) == IF cl > 0 THEN "contacts" ELSE IF ml > 0 THEN "messages" ELSE "idle"

\* handle_webhook is called: lines 184-263.
HandleWebhook ==
    /\ pc = "idle"
    /\ \E request \in Requests, F \in FaultSets({"company_lookup", "connect"}) :
         LET company_id == request.company_id
             webhook == request.webhook
             r == handle_webhook_start(company_id, webhook, F)
             go == r.result = "pending"
             cl == IF go THEN Len0(webhook.contacts) ELSE 0
             ml == IF go THEN Len0(webhook.messages) ELSE 0
         IN  /\ client_db' = r.client_db
             /\ contacts_left' = cl
             /\ messages_left' = ml
             /\ pc' = IF go THEN NextPc(cl, ml) ELSE "idle"
             /\ result' = IF go /\ NextPc(cl, ml) = "idle" THEN "Ok" ELSE r.result
             /\ fx' = Effect("start", request, "", r.err, NoBot)
    /\ UNCHANGED client_dbs
    /\ UNCHANGED <<pool_vars, codec_vars, lock_vars, race_vars>>

\* How the request goes on after one item: an error that left through `?` ends
\* handle_webhook with that error (lines 266, 270); otherwise the next item.
Continue(r, cl, ml) ==
    /\ contacts_left' = (IF r.err # "" THEN 0 ELSE cl)
    /\ messages_left' = (IF r.err # "" THEN 0 ELSE ml)
    /\ pc' = (IF r.err # "" THEN "idle" ELSE NextPc(cl, ml))
    /\ result' = (IF r.err # "" THEN "DbError"
                  ELSE IF NextPc(cl, ml) = "idle" THEN "Ok" ELSE "pending")

\* One iteration of the loop of handle_contacts, for an event of the pool, one
\* of the given sets of failing storage calls and a reading of the clock.
ProcessContactWith(pool, faults, clock) ==
    /\ pc = "contacts"
    /\ contacts_left <= MaxBatchLen
    /\ \E contact \in pool, F \in faults, t \in clock :
         LET db == Unwrap(client_db)
             T == client_dbs[db]
         IN  \E bot_user_id \in find_bot_user(T) :
               LET r == handle_contact(T, contact, F, t, bot_user_id) IN
               /\ client_dbs' = [client_dbs EXCEPT ![db] = r.db]
               /\ Continue(r, contacts_left - 1, messages_left)
               /\ fx' = Effect("contact", contact, r.outcome, r.err, NoBot)
    /\ UNCHANGED client_db
    /\ UNCHANGED <<pool_vars, codec_vars, lock_vars, race_vars>>

ProcessContact == ProcessContactWith(ContactPool, FaultSets(ContactFaults), 0..MaxClock)

\* The leading items of an array longer than MaxBatchLen are events whose id
\* fails validate_id; each is processed by the loop body, all of them in one step.
\* An iteration that leaves the tables as they were is the same for every event
\* that follows, so the loop is not unrolled further.
RECURSIVE SkipContacts(_, _)
SkipContacts(T, n) ==
    IF n = 0 THEN Result(T, "invalid")
    ELSE LET r == handle_contact(T, InvalidContact, {}, 0, None) IN
         IF r.err # "" \/ r.db = T THEN r ELSE SkipContacts(r.db, n - 1)

ProcessInvalidContacts ==
    /\ pc = "contacts"
    /\ contacts_left > MaxBatchLen
    /\ LET db == Unwrap(client_db)
           r == SkipContacts(client_dbs[db], contacts_left - MaxBatchLen)
       IN  /\ client_dbs' = [client_dbs EXCEPT ![db] = r.db]
           /\ Continue(r, MaxBatchLen, messages_left)
           /\ fx' = Effect("contact", InvalidContact, r.outcome, r.err, NoBot)
    /\ UNCHANGED client_db
    /\ UNCHANGED <<pool_vars, codec_vars, lock_vars, race_vars>>

\* One iteration of the loop of handle_messages, for an event of the pool and
\* one of the given sets of failing storage calls.
ProcessMessageWith(pool, faults) ==
    /\ pc = "messages"
    /\ messages_left <= MaxBatchLen
    /\ \E msg \in pool, F \in faults, t \in 0..MaxClock :
         LET db == Unwrap(client_db)
             T == client_dbs[db]
         IN  \E bot_user_id \in find_bot_user(T) :
               LET saved == handle_message(T, msg, F, t, bot_user_id) IN
               \E end \in RouteToBot(saved, msg, F) :
                 /\ client_dbs' = [client_dbs EXCEPT ![db] = end.db]
                 /\ Continue(end, contacts_left, messages_left - 1)
                 /\ fx' = Effect("message", msg, end.outcome, end.err, end.bot)
    /\ UNCHANGED client_db
    /\ UNCHANGED <<pool_vars, codec_vars, lock_vars, race_vars>>

ProcessMessageOf(pool) == ProcessMessageWith(pool, FaultSets(MessageFaults))

ProcessMessage == ProcessMessageOf(MessagePool)

RECURSIVE SkipMessages(_, _)
SkipMessages(T, n) ==
    IF n = 0 THEN Result(T, "invalid")
    ELSE LET r == handle_message(T, InvalidMessage, {}, 0, None) IN
         IF r.err # "" \/ r.db = T THEN r ELSE SkipMessages(r.db, n - 1)

ProcessInvalidMessages ==
    /\ pc = "messages"
    /\ messages_left > MaxBatchLen
    /\ LET db == Unwrap(client_db)
           r == SkipMessages(client_dbs[db], messages_left - MaxBatchLen)
       IN  /\ client_dbs' = [client_dbs EXCEPT ![db] = r.db]
           /\ Continue(r, contacts_left, MaxBatchLen)
           /\ fx' = Effect("message", InvalidMessage, r.outcome, r.err, NoBot)
    /\ UNCHANGED client_db
    /\ UNCHANGED <<pool_vars, codec_vars, lock_vars, race_vars>>

Next ==
    \/ HandleWebhook
    \/ ProcessContact
    \/ ProcessInvalidContacts
    \/ ProcessMessage
    \/ ProcessInvalidMessages

Spec == Init /\ [][Next]_vars

\* ------------------------------------------- batches of the id-check events
ProcessIdCheckMessage == ProcessMessageOf(IdCheckPool)

NextIds ==
    \/ HandleWebhook
    \/ ProcessContact
    \/ ProcessInvalidContacts
    \/ ProcessIdCheckMessage
    \/ ProcessInvalidMessages

SpecIds == Init /\ [][NextIds]_vars

\* ------------------------------ tenants whose only users are a bot with a
\* callback endpoint and a quality_control user
BotAndQualityControl == {User(1, "bot", Some("hook")), User(3, "quality_control", None)}

SpecNoHuman == InitWith(BotAndQualityControl) /\ [][Next]_vars

\* ------------------- batches of the content events, in a tenant without a bot
ProcessContentMessage == ProcessMessageWith(ContentPool, {{}})

NextContent ==
    \/ HandleWebhook
    \/ ProcessContact
    \/ ProcessInvalidContacts
    \/ ProcessContentMessage
    \/ ProcessInvalidMessages

SpecContent == InitWith({User(2, "manager", None)}) /\ [][NextContent]_vars

\* ---------------------------------- batches in which every storage call of a
\* message event succeeds (the callback and the relay may still fail)
ProcessMessageAllOk == ProcessMessageWith(MessagePool \cup {TelegramMessage}, {{}})

NextNominal ==
    \/ HandleWebhook
    \/ ProcessContact
    \/ ProcessInvalidContacts
    \/ ProcessMessageAllOk
    \/ ProcessInvalidMessages

SpecNominal == Init /\ [][NextNominal]_vars

\* --------- batches of the replay contacts, with no failing storage call and a
\* clock (chrono::Utc::now().timestamp_millis()) that reads one of two values
\* The two milliseconds the clock reads while these batches are processed.
ReplayClock == {0, 1}

ProcessReplayContact == ProcessContactWith(ReplayPool, {{}}, ReplayClock)

\* The message events of these batches are the one Telegram text.
ProcessReplayMessage == ProcessMessageWith({TelegramMessage}, {{}})

NextReplay ==
    \/ HandleWebhook
    \/ ProcessReplayContact
    \/ ProcessInvalidContacts
    \/ ProcessReplayMessage
    \/ ProcessInvalidMessages

SpecReplay == InitWith({User(2, "manager", None)}) /\ [][NextReplay]_vars

\* ----------------------------------------------- binary ids written and read
\* A Uuid is written with uuid_to_bytes and read back.
WriteAndRead ==
    /\ \E uuid \in Uuids :
         /\ uuid_in' = Some(uuid)
         /\ bytes' = uuid_to_bytes(uuid)
         /\ decoded' = uuid_from_bytes(uuid_to_bytes(uuid))
    /\ UNCHANGED <<pipeline_vars, pool_vars, lock_vars, race_vars>>

\* Stored bytes of any length are read.
ReadBytes ==
    /\ \E b \in ByteInputs :
         /\ uuid_in' = None
         /\ bytes' = b
         /\ decoded' = uuid_from_bytes(b)
    /\ UNCHANGED <<pipeline_vars, pool_vars, lock_vars, race_vars>>

NextUuid ==
    \/ WriteAndRead
    \/ ReadBytes

\* No request in progress and nothing written or read yet.
InitUuid ==
    /\ Init
    /\ client_dbs = [d \in DbNames |-> EmptyDb({User(2, "manager", None)})]

SpecUuid == InitUuid /\ [][NextUuid]_vars

\* ------------------------------------------------- the pool as a state machine
\* The state after a call on the pool.
PoolStep(r) ==
    /\ r.opened <= MaxConnections
    /\ pools' = r.pools
    /\ alive' = r.alive
    /\ opened' = r.opened
    /\ ret' = r.ret
    /\ UNCHANGED <<pipeline_vars, codec_vars, lock_vars, race_vars>>

\* ClientDbPoolManager::new, with no request in progress.
InitPool ==
    /\ Init
    /\ client_dbs = [d \in DbNames |-> EmptyDb({User(2, "manager", None)})]

GetConnection ==
    \E database_name \in PoolNames, connect_ok \in BOOLEAN :
        PoolStep(get_connection(pools, alive, opened, database_name, connect_ok))

\* The tenant connection of a batch is opened (handle_webhook, line 263).
GetClientDbConn ==
    \E database_name \in PoolNames, connect_ok \in BOOLEAN :
        PoolStep(get_client_db_conn(pools, alive, opened, database_name, connect_ok))

RemoveConnection ==
    \E database_name \in PoolNames :
        PoolStep(remove_connection(pools, alive, opened, database_name))

CloseAll == PoolStep(close_all(pools, alive, opened))

\* A connection is lost: from now on connection.ping() fails on it
\* (is_connection_alive returns false).
ConnectionLost ==
    \E h \in alive :
        PoolStep(PoolReturn("connection_lost", <<>>, "", Some(h), FALSE, "none", "none",
                            pools, alive \ {h}, opened))

NextPool ==
    \/ GetConnection
    \/ GetClientDbConn
    \/ RemoveConnection
    \/ CloseAll
    \/ ConnectionLost

SpecPool == InitPool /\ [][NextPool]_vars

\* ------------------------------ the pool called by concurrent tasks, one step
\* per lock operation, cache operation, ping and connect
\* What a step of a call on the pool leaves alone besides the pool itself.
LockFrame == UNCHANGED <<pipeline_vars, codec_vars, race_vars, ret>>

\* The call of task p returns.
Returned(p, probe, connect, result_, handle) ==
    call' = [call EXCEPT ![p] = [@ EXCEPT !.pc = "idle", !.probe = probe, !.connect = connect,
                                          !.result = result_, !.handle = handle]]

Goto(p, pc_) == call' = [call EXCEPT ![p].pc = pc_]

\* get_connection is called; line 27 refuses a bad name before any lock is taken.
StartGetConnection(p) ==
    /\ call[p].pc = "idle"
    /\ call[p].n < MaxCalls
    /\ \E database_name \in LockNames :
         call' = [call EXCEPT ![p] =
                    IF PoolNameValid(database_name)
                    THEN Call("read_lock", "get_connection", database_name, None, "none",
                              "none", "", None, @.n + 1)
                    ELSE Call("idle", "get_connection", database_name, None, "none",
                              "none", "InvalidInput", None, @.n + 1)]
    /\ UNCHANGED <<pools, alive, opened, readers, writer>>
    /\ LockFrame

\* Line 33: self.pools.read().await
AcquireRead(p) ==
    /\ call[p].pc = "read_lock"
    /\ CanRead(readers, writer)
    /\ readers' = readers \cup {p}
    /\ Goto(p, "lookup")
    /\ UNCHANGED <<pools, alive, opened, writer>>
    /\ LockFrame

\* Line 34: pools.get(database_name); without an entry the block ends (line 43).
LookUp(p) ==
    /\ call[p].pc = "lookup"
    /\ LET cached == pools[call[p].name] IN
       IF IsSome(cached)
       THEN /\ call' = [call EXCEPT ![p].pc = "ping", ![p].seen = cached]
            /\ UNCHANGED readers
       ELSE /\ Goto(p, "connect")
            /\ readers' = ReleaseRead(readers, p)
    /\ UNCHANGED <<pools, alive, opened, writer>>
    /\ LockFrame

\* Lines 36-41: is_connection_alive, awaited with the read guard held.
Ping(p) ==
    /\ call[p].pc = "ping"
    /\ IF Unwrap(call[p].seen) \in alive
       THEN Returned(p, "alive", "none", "Ok", call[p].seen)
       ELSE call' = [call EXCEPT ![p].pc = "connect", ![p].probe = "dead"]
    /\ readers' = ReleaseRead(readers, p)
    /\ UNCHANGED <<pools, alive, opened, writer>>
    /\ LockFrame

\* Lines 49-52: Database::connect, with no lock held.
Connect(p) ==
    /\ call[p].pc = "connect"
    /\ \E connect_ok \in BOOLEAN :
         IF connect_ok
         THEN /\ opened < MaxConnections
              /\ call' = [call EXCEPT ![p].pc = "write_lock", ![p].connect = "ok",
                                       ![p].handle = Some(opened + 1)]
              /\ alive' = alive \cup {opened + 1}
              /\ opened' = opened + 1
         ELSE /\ Returned(p, call[p].probe, "failed", "DbError", None)
              /\ UNCHANGED <<alive, opened>>
    /\ UNCHANGED <<pools, readers, writer>>
    /\ LockFrame

\* Lines 56, 79, 94: self.pools.write().await
AcquireWrite(p) ==
    /\ call[p].pc \in {"write_lock", "remove_lock", "close_lock"}
    /\ CanWrite(readers, writer)
    /\ writer' = Some(p)
    /\ Goto(p, CASE call[p].pc = "write_lock" -> "insert"
                  [] call[p].pc = "remove_lock" -> "remove"
                  [] OTHER -> "drain")
    /\ UNCHANGED <<pools, alive, opened, readers>>
    /\ LockFrame

\* Lines 57-61: pools.insert, the write guard is dropped, Ok(connection).
Insert(p) ==
    /\ call[p].pc = "insert"
    /\ pools' = [pools EXCEPT ![call[p].name] = call[p].handle]
    /\ writer' = None
    /\ Returned(p, call[p].probe, "ok", "Ok", call[p].handle)
    /\ UNCHANGED <<alive, opened, readers>>
    /\ LockFrame

\* remove_connection is called.
StartRemove(p) ==
    /\ call[p].pc = "idle"
    /\ call[p].n < MaxCalls
    /\ \E database_name \in LockNames :
         call' = [call EXCEPT ![p] = Call("remove_lock", "remove_connection", database_name,
                                          None, "none", "none", "", None, @.n + 1)]
    /\ UNCHANGED <<pools, alive, opened, readers, writer>>
    /\ LockFrame

\* Lines 95-97: pools.remove(database_name)
Remove(p) ==
    /\ call[p].pc = "remove"
    /\ pools' = [pools EXCEPT ![call[p].name] = None]
    /\ writer' = None
    /\ Returned(p, "none", "none", "Ok", None)
    /\ UNCHANGED <<alive, opened, readers>>
    /\ LockFrame

\* close_all is called.
StartCloseAll(p) ==
    /\ call[p].pc = "idle"
    /\ call[p].n < MaxCalls
    /\ call' = [call EXCEPT ![p] = Call("close_lock", "close_all", <<>>, None, "none", "none",
                                        "", None, @.n + 1)]
    /\ UNCHANGED <<pools, alive, opened, readers, writer>>
    /\ LockFrame

\* Lines 81-88: pools.drain(), each connection closed with the write guard held.
Drain(p) ==
    /\ call[p].pc = "drain"
    /\ pools' = NoPools
    /\ alive' = alive \ {Unwrap(pools[name]) : name \in get_active_databases(pools)}
    /\ writer' = None
    /\ Returned(p, "none", "none", "Ok", None)
    /\ UNCHANGED <<opened, readers>>
    /\ LockFrame

\* A cached connection is lost while calls are in progress.
ConnectionLostMeanwhile ==
    /\ \E h \in alive :
         /\ \E name \in PoolNames : pools[name] = Some(h)
         /\ alive' = alive \ {h}
    /\ UNCHANGED <<pools, opened, readers, writer, call>>
    /\ LockFrame

\* The steps that take the call of task p further.
Advance(p) ==
    \/ AcquireRead(p)
    \/ LookUp(p)
    \/ Ping(p)
    \/ Connect(p)
    \/ AcquireWrite(p)
    \/ Insert(p)
    \/ Remove(p)
    \/ Drain(p)

NextLocks ==
    \/ \E p \in Tasks : StartGetConnection(p)
    \/ \E p \in Tasks : StartRemove(p)
    \/ \E p \in Tasks : StartCloseAll(p)
    \/ \E p \in Tasks : Advance(p)
    \/ ConnectionLostMeanwhile

\* The runtime polls every task that can go on: a call that can take a step
\* takes one.
SpecLocks == InitPool /\ [][NextLocks]_vars /\ \A p \in Tasks : WF_vars(Advance(p))

\* ------------- two batches of tenant 1 processed concurrently, one step per
\* storage call of handle_messages; no storage call fails but by a key
RaceDb == <<"t", "1">>

RaceFrame == UNCHANGED <<pc, contacts_left, messages_left, client_db, result, fx,
                         pool_vars, codec_vars, lock_vars>>

\* The batch b goes on to its next storage call, the tables becoming T.
RaceStep(b, T, next) ==
    /\ client_dbs' = [client_dbs EXCEPT ![RaceDb] = T]
    /\ task' = [task EXCEPT ![b] = next]
    /\ RaceFrame

\* The batch b is done with its event.
RaceDone(b, outcome) == [task[b] EXCEPT !.pc = "done", !.outcome = outcome]

\* Lines 499-516: the loop reaches the event; the ids are checked.
StartMessage(b) ==
    /\ task[b].pc = "idle"
    /\ \E msg \in RacePool :
         RaceStep(b, client_dbs[RaceDb],
                  IF MessageIdsValid(msg)
                  THEN [task[b] EXCEPT !.pc = "id_lookup", !.msg = Some(msg)]
                  ELSE [task[b] EXCEPT !.pc = "done", !.msg = Some(msg), !.outcome = "invalid"])

\* Lines 563-574.
IdLookup(b) ==
    /\ task[b].pc = "id_lookup"
    /\ LET T == client_dbs[RaceDb] IN
       RaceStep(b, T, IF MessageExistsById(T, Unwrap(task[b].msg))
                      THEN RaceDone(b, "dup_id")
                      ELSE [task[b] EXCEPT !.pc = "content_lookup"])

\* Lines 629-642.
ContentLookup(b) ==
    /\ task[b].pc = "content_lookup"
    /\ LET T == client_dbs[RaceDb] IN
       RaceStep(b, T, IF DuplicateByContent(T, Unwrap(task[b].msg))
                      THEN RaceDone(b, "dup_content")
                      ELSE [task[b] EXCEPT !.pc = "channel_lookup"])

\* Line 648.
ChannelLookup(b) ==
    /\ task[b].pc = "channel_lookup"
    /\ LET T == client_dbs[RaceDb] IN
       RaceStep(b, T, IF \E c \in T.channels : c.id = Unwrap(task[b].msg).channel_id
                      THEN [task[b] EXCEPT !.pc = "chat_lookup"]
                      ELSE [task[b] EXCEPT !.pc = "channel_insert"])

\* Lines 650-661: the insert; a key violation is logged.
ChannelInsert(b) ==
    /\ task[b].pc = "channel_insert"
    /\ LET T == client_dbs[RaceDb]
           msg == Unwrap(task[b].msg)
           row == [id |-> msg.channel_id, type |-> msg.chat_type]
       IN  RaceStep(b, IF ChannelInsertOk(T, row) THEN [T EXCEPT !.channels = @ \cup {row}]
                       ELSE T,
                    [task[b] EXCEPT !.pc = "chat_lookup"])

\* Line 668.
ChatLookup(b) ==
    /\ task[b].pc = "chat_lookup"
    /\ LET T == client_dbs[RaceDb] IN
       RaceStep(b, T, IF \E c \in T.chats : c.id = Unwrap(task[b].msg).chat_id
                      THEN [task[b] EXCEPT !.pc = "client_lookup"]
                      ELSE [task[b] EXCEPT !.pc = "chat_insert"])

\* Lines 670-681: the insert; a key violation is logged.
ChatInsert(b) ==
    /\ task[b].pc = "chat_insert"
    /\ LET T == client_dbs[RaceDb]
           msg == Unwrap(task[b].msg)
           row == [id |-> msg.chat_id, channel_id |-> msg.channel_id]
       IN  RaceStep(b, IF ChatInsertOk(T, row) THEN [T EXCEPT !.chats = @ \cup {row}] ELSE T,
                    [task[b] EXCEPT !.pc = "client_lookup"])

\* Lines 829-843 of create_client_from_message.
ClientLookup(b) ==
    /\ task[b].pc = "client_lookup"
    /\ LET T == client_dbs[RaceDb] IN
       RaceStep(b, T, IF ClientExistsForChat(T, Unwrap(task[b].msg).chat_id)
                      THEN [task[b] EXCEPT !.pc = "message_insert"]
                      ELSE [task[b] EXCEPT !.pc = "find_bot_user"])

\* Line 951.
FindBotUser(b) ==
    /\ task[b].pc = "find_bot_user"
    /\ LET T == client_dbs[RaceDb] IN
       \E bot_user_id \in find_bot_user(T) :
          RaceStep(b, T, [task[b] EXCEPT !.pc = "client_insert", !.bot_user_id = bot_user_id])

\* Lines 925, 956-975: the insert, with the email made from the clock; a key
\* violation is logged.
ClientInsert(b) ==
    /\ task[b].pc = "client_insert"
    /\ \E t \in ReplayClock :
         LET T == client_dbs[RaceDb]
             row == NewClientFromMessage(T, Unwrap(task[b].msg), t, task[b].bot_user_id)
         IN  IF ClientInsertOk(T, row)
             THEN RaceStep(b, [T EXCEPT !.clients = @ \cup {row}],
                           [task[b] EXCEPT !.pc = "message_insert", !.created = TRUE])
             ELSE RaceStep(b, T, [task[b] EXCEPT !.pc = "message_insert"])

\* Lines 767-811: the insert; in its Ok arm an inbound message goes to the bot.
MessageInsert(b) ==
    /\ task[b].pc = "message_insert"
    /\ LET T == client_dbs[RaceDb]
           msg == Unwrap(task[b].msg)
           row == NewMessage(msg)
       IN  IF MessageInsertOk(T, row)
           THEN RaceStep(b, [T EXCEPT !.messages = @ \cup {row}],
                         IF determine_message_direction(msg)
                         THEN [task[b] EXCEPT !.pc = "bot", !.outcome = "stored"]
                         ELSE RaceDone(b, "stored"))
           ELSE RaceStep(b, T, RaceDone(b, "insert_failed"))

\* Lines 793-805: handle_bot_interaction, taken as one step.
BotInteraction(b) ==
    /\ task[b].pc = "bot"
    /\ \E e \in handle_bot_interaction(client_dbs[RaceDb], NewMessage(Unwrap(task[b].msg)), {}) :
         RaceStep(b, e[1], [task[b] EXCEPT !.pc = "done", !.bot = e[2]])

NextRace ==
    \E b \in Batches :
        \/ StartMessage(b)
        \/ IdLookup(b)
        \/ ContentLookup(b)
        \/ ChannelLookup(b)
        \/ ChannelInsert(b)
        \/ ChatLookup(b)
        \/ ChatInsert(b)
        \/ ClientLookup(b)
        \/ FindBotUser(b)
        \/ ClientInsert(b)
        \/ MessageInsert(b)
        \/ BotInteraction(b)

SpecRace ==
    InitWith({User(1, "bot", Some("hook")), User(2, "manager", None),
              User(3, "quality_control", None)}) /\ [][NextRace]_vars

\* ------------------------------------------------------------------ properties
\* The database of tenant 1, the active tenant whose batches are processed.
Tenant1 == client_dbs[<<"t", "1">>]

\* The company a request names is on record and its active flag is true.
ActiveTenant(request) ==
    \E c \in Companies : c.id = request.company_id /\ c.is_active = Some(TRUE)

\* A contacts or messages array of the request is longer than the ceiling.
OverCeiling(request) ==
    \/ Len0(request.webhook.contacts) > MaxEvents
    \/ Len0(request.webhook.messages) > MaxEvents

\* The step left every table alone, opened no tenant connection and processes no item.
NothingDone ==
    /\ client_dbs' = client_dbs
    /\ client_db' = None
    /\ pc' = "idle"
    /\ contacts_left' = 0
    /\ messages_left' = 0
    /\ ~fx'.bot.routed
    /\ ~fx'.bot.hook

\* C1, as stated: once a message event with valid ids has been processed without a
\* storage failure, exactly one Message with its id is stored.
C1_ExactlyOneStored ==
    (fx.kind = "message" /\ MessageIdsValid(fx.event) /\ fx.err = ""
        /\ fx.outcome # "insert_failed")
      => Cardinality({m \in Tenant1.messages : m.id = fx.event.message_id}) = 1

\* C1, amended: no two stored Messages share an id, and processing a message event
\* whose id is already stored changes no Channel, Chat, Client or Message row and
\* does not call bot routing.
C1_ReplayedIdIsNoOp ==
    [][pc = "messages" =>
          LET db == Unwrap(client_db)
              T == client_dbs[db]
              T2 == client_dbs'[db]
          IN  /\ \A a, b \in T2.messages : a.id = b.id => a = b
              /\ (\E m \in T.messages : m.id = fx'.event.message_id)
                    => (T2 = T /\ ~fx'.bot.routed /\ ~fx'.bot.hook)]_vars

\* C1 witness: the event whose Message is stored was delivered again and skipped
\* by the lookup by id.
C1_Replayed ==
    /\ fx.kind = "message"
    /\ fx.outcome = "dup_id"
    /\ NewMessage(fx.event) \in Tenant1.messages

\* C2, as stated: no two stored Messages of one chat have the same content (the
\* second of two events with the same chat, type and derived content is skipped).
C2_ContentDedup ==
    \A a, b \in Tenant1.messages :
        (a.chat_id = b.chat_id /\ a.content = b.content) => a = b

\* C3: for an active tenant whose lookup succeeded, a request with more than 100
\* contact events or more than 100 message events returns InvalidInput, writes no
\* row, opens no tenant connection and processes no item; a request with at most
\* 100 of each returns InvalidInput only for a refused database name.
C3_VolumeBound ==
    [][(pc = "idle" /\ ActiveTenant(fx'.event) /\ fx'.err = "") =>
          /\ OverCeiling(fx'.event) => (result' = "InvalidInput" /\ NothingDone)
          /\ (~OverCeiling(fx'.event) /\ result' = "InvalidInput")
                => \E c \in Companies : /\ c.id = fx'.event.company_id
                                         /\ ~DatabaseNameValid(c.database_name)]_vars

\* C3 witness: a request of 101 events was refused while the tenant holds rows.
C3_Refused ==
    /\ fx.kind = "start"
    /\ ActiveTenant(fx.event)
    /\ OverCeiling(fx.event)
    /\ result = "InvalidInput"
    /\ Tenant1.messages # {}

\* C4: when the company lookup succeeds and finds no company with the id of the
\* request, handle_webhook returns NotFound, whatever the request carries, writes
\* no row and opens no tenant connection.
C4_UnknownTenant ==
    [][(pc = "idle" /\ fx'.err = ""
          /\ \A c \in Companies : c.id # fx'.event.company_id)
        => (result' = "NotFound" /\ NothingDone)]_vars

\* C4 witness: a test request to a tenant that is not on record returned NotFound.
C4_TestToUnknownTenant ==
    /\ fx.kind = "start"
    /\ \A c \in Companies : c.id # fx.event.company_id
    /\ fx.event.webhook.test = Some(TRUE)
    /\ result = "NotFound"

\* C5: for a company on record whose active flag is false or unset, handle_webhook
\* returns Ok, processes no event, writes no row, opens no tenant connection and
\* calls no bot.
C5_InactiveTenant ==
    [][(pc = "idle" /\ fx'.err = ""
          /\ \E c \in Companies : /\ c.id = fx'.event.company_id
                                   /\ c.is_active # Some(TRUE))
        => (result' = "Ok" /\ NothingDone)]_vars

\* C5 witness: a request with events to a tenant whose active flag is unset
\* returned Ok.
C5_UnsetFlagAccepted ==
    /\ fx.kind = "start"
    /\ \E c \in Companies : c.id = fx.event.company_id /\ c.is_active = None
    /\ Len0(fx.event.webhook.messages) > 0
    /\ result = "Ok"

\* C6, as stated: for an active tenant whose lookup succeeded, a request flagged
\* test = true returns Ok however many events it carries.
C6_TestBeforeVolumeBound ==
    (fx.kind = "start" /\ fx.err = "" /\ ActiveTenant(fx.event)
        /\ fx.event.webhook.test = Some(TRUE))
      => result = "Ok"

\* C7, as stated: whatever fails while a contact event is processed, the batch
\* goes on (result pending) or has ended with Ok.
C7_ContactFailureIsolated ==
    fx.kind = "contact" => (fx.err = "" /\ result \in {"pending", "Ok"})

\* C8, as stated: whatever fails while a message event is processed, the batch
\* goes on (result pending) or has ended with Ok.
C8_MessageFailureIsolated ==
    fx.kind = "message" => (fx.err = "" /\ result \in {"pending", "Ok"})

\* C9: after handle_bot_interaction was called for a message event, however it
\* ended, no error left handle_messages, the Message is stored, and the batch
\* goes on with the next message event or has ended with Ok.
C9_BotNeverFailsIngestion ==
    fx.bot.routed =>
        /\ fx.err = ""
        /\ \E m \in Tenant1.messages : m.id = fx.event.message_id
        /\ IF messages_left > 0
           THEN pc = "messages" /\ result = "pending"
           ELSE pc = "idle" /\ result = "Ok"

\* C9 witness: handle_bot_interaction returned an Err while message events of
\* the batch were left.
C9_BotErrLogged ==
    /\ fx.bot.routed
    /\ BotFailed(fx.bot)
    /\ messages_left > 0

\* C10: handle_bot_interaction is called, and the bot callback sent, only in a
\* step that processes a message event whose direction is inbound and that
\* inserts the Message of the event.
C10_BotOnlyInboundFresh ==
    [][(fx'.bot.routed \/ fx'.bot.hook) =>
          /\ pc = "messages"
          /\ fx'.outcome = "stored"
          /\ (fx'.event.is_echo = Some(FALSE)
                \/ (fx'.event.is_echo = None /\ fx'.event.status = Some("inbound")))
          /\ LET db == Unwrap(client_db) IN
             /\ NewMessage(fx'.event) \in client_dbs'[db].messages
             /\ ~\E m \in client_dbs[db].messages : m.id = fx'.event.message_id]_vars

\* C10 witness: the callback was sent for a stored message event.
C10_CallbackSent ==
    /\ fx.bot.hook
    /\ fx.outcome = "stored"

\* C11, as stated: a Message stored for an event with neither is_echo nor status
\* carries a direction value other than the one stored for an outbound event
\* (is_inbound = false).
C11_UnknownDistinguishable ==
    \A m \in Tenant1.messages :
        (m.is_echo = None /\ m.direction_status = None) => m.is_inbound # Some(FALSE)

\* The callback of the step ended in one of the ways that start the fallback:
\* status "error", a transport failure, a timeout, a non-2xx answer, a body that
\* does not parse.
FallbackDue(bot) ==
    bot.hook /\ bot.callback \in {"error", "transport_failure", "timeout", "http_error",
                                   "unparsable"}

\* The responsible assignee of the Client c is a user of T with one of the roles.
AssignedTo(T, c, roles) ==
    \E u \in T.users : c.responsible_user_id = Some(u.id) /\ u.role \in roles

CachedAlive(name) == IsSome(pools[name]) /\ Unwrap(pools[name]) \in alive

\* The step opened one connection, never opened before, stored it under the name
\* in place of whatever was there, and returned it.
RecreatedUnder(name) ==
    /\ ret'.result = "Ok"
    /\ opened' = opened + 1
    /\ ret'.handle = Some(opened')
    /\ opened' \in alive'
    /\ pools' = [pools EXCEPT ![name] = ret'.handle]

\* The step returned the cached handle, opened no connection and left the cache alone.
ReusedFrom(name) ==
    /\ ret'.result = "Ok"
    /\ ret'.handle = pools[name]
    /\ opened' = opened
    /\ pools' = pools

\* C13, as stated: a get_connection call on a valid name returns the cached handle
\* and opens no connection when the cache holds a handle that answers the probe,
\* and otherwise opens exactly one new connection, stores it under the name and
\* returns it.
C13_ReuseOrRecreate ==
    [][(ret'.op = "get_connection" /\ PoolNameValid(ret'.name)) =>
          IF CachedAlive(ret'.name) THEN ReusedFrom(ret'.name)
          ELSE RecreatedUnder(ret'.name)]_vars

\* C13, amended: as C13, but the new connection is opened, stored and returned
\* only if Database::connect succeeds; if it fails the call returns the database
\* error, no connection is opened and the cache, with its stale entry, is unchanged.
C13_ReuseOrRecreateOrFail ==
    [][(ret'.op = "get_connection" /\ PoolNameValid(ret'.name)) =>
          IF CachedAlive(ret'.name) THEN ReusedFrom(ret'.name)
          ELSE \/ RecreatedUnder(ret'.name)
               \/ /\ ret'.result = "DbError"
                  /\ ret'.handle = None
                  /\ opened' = opened
                  /\ alive' = alive
                  /\ pools' = pools]_vars

\* C13 witness: a call found a handle whose probe failed, and has replaced it by
\* a new connection that is now the one entry for the name.
C13_StaleReplaced ==
    /\ ret.op = "get_connection"
    /\ ret.probe = "dead"
    /\ ret.connect = "ok"
    /\ pools[ret.name] = ret.handle
    /\ CachedAlive(ret.name)

\* C14, as stated: get_connection with a name that is empty or holds a character
\* other than alphanumerics and underscore returns InvalidInput without reading
\* the cache, probing or connecting, and leaves the cache unchanged.
C14_BadNameRejected ==
    [][(ret'.op = "get_connection"
          /\ (ret'.name = <<>>
                \/ \E i \in 1..Len(ret'.name) :
                      ~(is_alphanumeric(ret'.name[i]) \/ ret'.name[i] = "_")))
        => /\ ret'.result = "InvalidInput"
           /\ ~ret'.looked_up
           /\ ret'.probe = "none"
           /\ ret'.connect = "none"
           /\ opened' = opened
           /\ pools' = pools]_vars

\* C14 witness: a name with a character outside the allow-list was refused while
\* the cache held an entry.
C14_RefusedWithCache ==
    /\ ret.op = "get_connection"
    /\ ret.result = "InvalidInput"
    /\ ret.name # <<>>
    /\ \E name \in PoolNames : IsSome(pools[name])

\* C15, as stated: the tenant connection of a batch is the handle the pool caches
\* for the tenant's database, so the batch that follows another batch of the same
\* tenant, with that handle still alive, gets the same handle and no connection
\* is opened for it.
C15_BatchesShareCachedHandle ==
    [][(ret'.op = "get_client_db_conn" /\ ret'.result = "Ok") =>
          /\ pools'[ret'.name] = ret'.handle
          /\ (ret.op = "get_client_db_conn" /\ ret.result = "Ok"
                 /\ ret.name = ret'.name /\ Unwrap(ret.handle) \in alive)
                => (ret'.handle = ret.handle /\ opened' = opened)]_vars

\* C15 witness: two batches of one tenant in a row each got a tenant connection.
C15_SecondBatchConnected ==
    /\ ret.op = "get_client_db_conn"
    /\ ret.result = "Ok"
    /\ ret.handle = Some(2)
    /\ alive = {1, 2}

\* The items left after one step of a loop that had n items left: one less, or
\* the last MaxBatchLen once the leading invalid events are done.
OneVisited(n) == IF n > MaxBatchLen THEN MaxBatchLen ELSE n - 1

\* C16, as stated: while a batch is processed, every step handles the next event
\* of the array and no other (contacts first, messages only when no contact is
\* left), so that every event of the batch is visited once, and the tables an
\* event starts from are those the event before it left.
C16_InOrderEachOnce ==
    [][pc # "idle" =>
          /\ pc = "contacts" =>
                /\ fx'.kind = "contact"
                /\ contacts_left' = OneVisited(contacts_left)
                /\ messages_left' = messages_left
          /\ pc = "messages" =>
                /\ fx'.kind = "message"
                /\ contacts_left = 0
                /\ contacts_left' = 0
                /\ messages_left' = OneVisited(messages_left)
          /\ pc' = NextPc(contacts_left', messages_left')]_vars

\* C17, as stated: in every tenant database every stored Chat references a stored
\* Channel and every stored Message references a stored Chat.
C17_ReferentialIntegrity ==
    \A db \in DbNames :
        LET T == client_dbs[db] IN
        /\ \A chat \in T.chats : \E channel \in T.channels : channel.id = chat.channel_id
        /\ \A m \in T.messages : \E chat \in T.chats : chat.id = m.chat_id

\* C18, as stated: once a batch has completed, every Client of the tenant has a
\* responsible assignee.
C18_EveryClientAssigned ==
    pc = "idle" => \A c \in Tenant1.clients : IsSome(c.responsible_user_id)

\* C18, amended: once a batch has completed, every Client of a tenant that has a
\* user with role "bot" has one responsible assignee, a user on record, and every
\* Client of a tenant without such a user has none.
C18_AssignedIffBotExists ==
    pc = "idle" =>
        \A c \in Tenant1.clients :
            IF \E u \in Tenant1.users : u.role = "bot"
            THEN \E u \in Tenant1.users : c.responsible_user_id = Some(u.id)
            ELSE c.responsible_user_id = None

\* C18 witness: a batch has completed with Ok and left a Client assigned to the
\* bot user.
C18_ClientAssignedToBot ==
    /\ pc = "idle"
    /\ result = "Ok"
    /\ \E c \in Tenant1.clients : AssignedTo(Tenant1, c, {"bot"})

\* The string is a UUID in canonical form: 8-4-4-4-12 lower-case hex digits.
CanonicalUuid(id) ==
    /\ Len(id) = 36
    /\ \A i \in 1..36 :
          IF i \in {9, 14, 19, 24} THEN id[i] = "-"
          ELSE id[i] \in Digits \cup {"a", "b", "c", "d", "e", "f"}

UnsafeId(id) ==
    \/ id = <<>>
    \/ Len(id) > 100
    \/ \E i \in 1..Len(id) : id[i] \notin Digits \cup LowerLetters \cup UpperLetters \cup {"-", "_"}

\* C20: a message event whose message id, channel id or chat id is unsafe changes
\* no table of any tenant and calls no bot routing, no error leaves the loop, and
\* the batch goes on with the next event or ends with Ok.
C20_UnsafeIdsRejected ==
    [][(pc = "messages"
          /\ (UnsafeId(fx'.event.message_id) \/ UnsafeId(fx'.event.channel_id)
                \/ UnsafeId(fx'.event.chat_id)))
        => /\ client_dbs' = client_dbs
           /\ fx'.outcome = "invalid"
           /\ ~fx'.bot.routed
           /\ ~fx'.bot.hook
           /\ fx'.err = ""
           /\ messages_left' = OneVisited(messages_left)
           /\ pc' = NextPc(0, messages_left')
           /\ result' = (IF messages_left' = 0 THEN "Ok" ELSE "pending")]_vars

\* C20 witness: an event whose message id is safe and whose channel id is too
\* long was rejected after a Message was stored, and the batch goes on.
C20_LongChannelIdRejected ==
    /\ fx.kind = "message"
    /\ fx.outcome = "invalid"
    /\ ~UnsafeId(fx.event.message_id)
    /\ Len(fx.event.channel_id) = MaxIdLen + 1
    /\ Tenant1.messages # {}
    /\ pc = "messages"

\* The event is a valid inbound text "hi" (isEcho = false) that names no client.
FirstMessage(e) ==
    /\ ~UnsafeId(e.message_id) /\ ~UnsafeId(e.channel_id) /\ ~UnsafeId(e.chat_id)
    /\ e.type = "text"
    /\ e.text = Some(<<"h", "i">>)
    /\ e.content_uri = None
    /\ e.is_echo = Some(FALSE)
    /\ e.client_name = None
    /\ e.client_phone = None
    /\ e.chat_type = "whatsapp"

\* C21: when every storage call succeeds, a valid inbound text "hi" processed for
\* a tenant with no Channel, Chat or Client leaves exactly one Channel with the
\* event's channel id, one Chat of that Channel, one Client linked to the chat
\* and named by the placeholder of chat type and chat id, and one Message, marked
\* inbound, with the one text part "hi".
C21_FirstMessage ==
    [][(pc = "messages" /\ FirstMessage(fx'.event)
          /\ client_dbs[Unwrap(client_db)].channels = {}
          /\ client_dbs[Unwrap(client_db)].chats = {}
          /\ client_dbs[Unwrap(client_db)].clients = {})
        => LET T2 == client_dbs'[Unwrap(client_db)]
               e == fx'.event
           IN  /\ T2.channels = {[id |-> e.channel_id, type |-> "whatsapp"]}
               /\ T2.chats = {[id |-> e.chat_id, channel_id |-> e.channel_id]}
               /\ Cardinality(T2.clients) = 1
               /\ \A c \in T2.clients :
                     /\ c.wazzup_chat = Some(e.chat_id)
                     /\ c.full_name = <<"WhatsApp ">> \o e.chat_id
               /\ Cardinality(T2.messages) = 1
               /\ \A m \in T2.messages :
                     /\ m.id = e.message_id
                     /\ m.chat_id = e.chat_id
                     /\ m.is_inbound = Some(TRUE)
                     /\ m.content = <<[type |-> "text", content |-> <<"h", "i">>]>>]_vars

\* C21 witness: the first message of a tenant has been processed and all four
\* rows are stored.
C21_FirstMessageStored ==
    /\ fx.kind = "message"
    /\ FirstMessage(fx.event)
    /\ fx.outcome = "stored"
    /\ Cardinality(Tenant1.channels) = 1
    /\ Cardinality(Tenant1.chats) = 1
    /\ Cardinality(Tenant1.clients) = 1
    /\ Cardinality(Tenant1.messages) = 1

\* The contact event carries a non-blank value in the field.
Given(field) == IsSome(field) /\ trim(Unwrap(field)) # <<>>

\* C22: a contact event with a valid id whose email is that of a stored Client,
\* or whose chat id is that of a stored Client, adds no Client and changes none;
\* when the email matched, the lookup by chat id is not made (no error can come
\* from it) and the event is skipped as existing.
C22_FirstWriteWins ==
    [][(pc = "contacts" /\ contacts_left <= MaxBatchLen) =>
          LET T == client_dbs[Unwrap(client_db)]
              T2 == client_dbs'[Unwrap(client_db)]
              e == fx'.event
              byEmail == Given(e.email) /\ \E c \in T.clients : c.email = Unwrap(e.email)
              byChat == Given(e.chat_id)
                          /\ \E c \in T.clients : c.wazzup_chat = Some(Unwrap(e.chat_id))
          IN  /\ (validate_id(e.contact_id) /\ (byEmail \/ byChat)) => T2 = T
              /\ (validate_id(e.contact_id) /\ byEmail)
                    => fx'.err \in {"", "contact_email_lookup"}
              /\ (validate_id(e.contact_id) /\ byEmail /\ fx'.err = "")
                    => fx'.outcome = "exists"]_vars

\* C22 witness: a contact event whose email no Client has was skipped because a
\* Client with its chat id is stored.
C22_SkippedByChat ==
    /\ fx.kind = "contact"
    /\ fx.outcome = "exists"
    /\ Given(fx.event.email)
    /\ ~\E c \in Tenant1.clients : c.email = Unwrap(fx.event.email)
    /\ \E c \in Tenant1.clients : c.wazzup_chat = Some(Unwrap(fx.event.chat_id))

\* C23, as stated: the Message an event has just stored is found by the lookup
\* made with the content recomputed for the duplicate check of that same event.
C23_DedupKeyIsStoredContent ==
    (fx.kind = "message" /\ fx.outcome = "stored")
      => \E m \in Tenant1.messages :
            /\ m.id = fx.event.message_id
            /\ m.chat_id = fx.event.chat_id
            /\ m.content = content_for_check(fx.event)

\* C24, as stated: once a message event that is no duplicate has been stored, a
\* Channel with the event's channel id is stored and its type is the event's chat
\* type.
C24_ChannelTypeFollowsEvent ==
    (fx.kind = "message" /\ fx.outcome = "stored")
      => \E channel \in Tenant1.channels :
            channel.id = fx.event.channel_id /\ channel.type = fx.event.chat_type

\* C25: a Uuid written with uuid_to_bytes is 16 bytes and reads back as itself;
\* 8 bytes read as the Uuid of eight zero bytes followed by them; no bytes read as
\* the nil Uuid; every other length is an error.
C25_BinaryIdRoundTrip ==
    /\ IsSome(uuid_in) =>
          /\ Len(bytes) = 16
          /\ decoded.ok
          /\ decoded.uuid = Unwrap(uuid_in)
    /\ Len(bytes) = 16 =>
          decoded.ok /\ \A i \in 1..16 : decoded.uuid.bytes[i] = bytes[i]
    /\ Len(bytes) = 8 =>
          /\ decoded.ok
          /\ \A i \in 1..8 : decoded.uuid.bytes[i] = 0
          /\ \A i \in 9..16 : decoded.uuid.bytes[i] = bytes[i - 8]
    /\ Len(bytes) = 0 =>
          decoded.ok /\ \A i \in 1..16 : decoded.uuid.bytes[i] = 0
    /\ Len(bytes) \notin {0, 8, 16} => ~decoded.ok

\* C25 witness: eight bytes that are not all zero were read as a Uuid.
C25_EightBytesRead ==
    /\ Len(bytes) = 8
    /\ decoded.ok
    /\ \E i \in 1..8 : bytes[i] # 0

\* The user is a bot with a callback endpoint.
BotWithHook(u) == u.role = "bot" /\ IsSome(u.hook)

\* C26: in a message step the callback is sent only if a Client linked to the
\* chat is assigned to a bot with a callback endpoint (after the step it still
\* is, or that very step transferred it: then it was assigned to such a bot
\* before the step, or was created by the step in a tenant with such a bot); when no callback
\* is sent there is no relay and no transfer, and every Client row is as before.
C26_BotPreconditions ==
    [][pc = "messages" =>
          LET T == client_dbs[Unwrap(client_db)]
              T2 == client_dbs'[Unwrap(client_db)]
              e == fx'.event
              bot == fx'.bot
          IN  /\ bot.hook =>
                    /\ bot.routed
                    /\ \E c \in T2.clients :
                          /\ c.wazzup_chat = Some(e.chat_id)
                          /\ IsSome(c.responsible_user_id)
                          /\ \/ \E u \in T2.users : /\ u.id = Unwrap(c.responsible_user_id)
                                                      /\ BotWithHook(u)
                             \/ /\ bot.transfer = "transferred"
                                /\ \E u \in T2.users : BotWithHook(u)
                                /\ \A c0 \in T.clients :
                                      c0.id = c.id
                                        => \E u \in T2.users :
                                              /\ c0.responsible_user_id = Some(u.id)
                                              /\ BotWithHook(u)
              /\ ~bot.hook =>
                    /\ bot.callback = "none"
                    /\ bot.relay = "none"
                    /\ bot.transfer = "none"
                    /\ T.clients \subseteq T2.clients
                    /\ \A c \in T2.clients \ T.clients :
                          c.wazzup_chat = Some(e.chat_id)]_vars

\* C26 witness: bot routing was entered for a stored inbound message whose Client
\* is assigned to a manager, and stopped without a callback.
C26_LeftForHuman ==
    /\ fx.kind = "message"
    /\ fx.bot.routed
    /\ ~fx.bot.hook
    /\ fx.bot.stop = "not_bot"
    /\ \E c \in Tenant1.clients :
          c.wazzup_chat = Some(fx.event.chat_id) /\ AssignedTo(Tenant1, c, {"manager"})

\* The request is the one the success path is to send for the event e: the
\* bot's reply, the chat of the event, the channel stored for that chat with its
\* type, and as sender the bot the chat's Client is assigned to.
RelayOf(T, e, request) ==
    /\ request.text = Some(BotReply)
    /\ request.chat_id = Some(e.chat_id)
    /\ \E chat \in T.chats, channel \in T.channels :
          /\ chat.id = e.chat_id
          /\ channel.id = chat.channel_id
          /\ request.channel_id = Some(channel.id)
          /\ request.chat_type = Some(channel.type)
    /\ \E c \in T.clients, u \in T.users :
          /\ c.wazzup_chat = Some(e.chat_id)
          /\ c.responsible_user_id = Some(u.id)
          /\ BotWithHook(u)
          /\ request.sender_id = u.id

\* The step changed no Client row and made no transfer.
AssigneesKept(T, T2, bot) ==
    /\ bot.transfer = "none"
    /\ T2.users = T.users
    /\ T.clients \subseteq T2.clients

\* C27, as stated: whenever the callback of a message step answers "success",
\* one send_message request is made, with the reply, the chat, its stored channel
\* and the bot as sender, and no Client changes its assignee.
C27_SuccessRelays ==
    [][(pc = "messages" /\ fx'.bot.callback = "success") =>
          LET T == client_dbs[Unwrap(client_db)]
              T2 == client_dbs'[Unwrap(client_db)]
          IN  /\ IsSome(fx'.bot.request)
              /\ RelayOf(T2, fx'.event, Unwrap(fx'.bot.request))
              /\ AssigneesKept(T, T2, fx'.bot)]_vars

\* C27, amended: whenever the callback answers "success", no Client changes its
\* assignee; at most one send_message request is made, and a request made
\* carries the reply, the chat, its stored channel and the bot as sender; none is
\* made when the chat or its channel is not stored, and otherwise none only when
\* the lookup of the chat failed.
C27_SuccessRelaysIfChatFound ==
    [][(pc = "messages" /\ fx'.bot.callback = "success") =>
          LET T == client_dbs[Unwrap(client_db)]
              T2 == client_dbs'[Unwrap(client_db)]
              e == fx'.event
              bot == fx'.bot
              stored == \E chat \in T2.chats, channel \in T2.channels :
                            chat.id = e.chat_id /\ channel.id = chat.channel_id
          IN  /\ AssigneesKept(T, T2, bot)
              /\ IsSome(bot.request) <=> bot.relay \in {"sent", "send_failed"}
              /\ IsSome(bot.request) => RelayOf(T2, e, Unwrap(bot.request))
              /\ ~stored => bot.request = None
              /\ (stored /\ bot.request = None) => bot.relay = "error"]_vars

\* C27 witness: the bot answered "success" and its reply was sent to the provider.
C27_ReplySent ==
    /\ fx.kind = "message"
    /\ fx.bot.callback = "success"
    /\ fx.bot.relay = "sent"
    /\ IsSome(fx.bot.request)
    /\ Unwrap(fx.bot.request).text = Some(BotReply)

\* C28: when the fallback is due in a tenant with no user other than bots and
\* quality_control, the transfer fails (no manager, or the query for managers
\* failed), every Client row is as before the step apart from a Client the step
\* created, which stays with the bot, no error leaves the loop, and the batch goes on or ends with Ok.
C28_NoFallbackHuman ==
    [][(pc = "messages" /\ FallbackDue(fx'.bot)
          /\ \A u \in client_dbs[Unwrap(client_db)].users :
                u.role \in {"bot", "quality_control"})
        => LET T == client_dbs[Unwrap(client_db)]
               T2 == client_dbs'[Unwrap(client_db)]
           IN  /\ fx'.bot.transfer \in {"no_manager", "error"}
               /\ T.clients \subseteq T2.clients
               /\ \A c \in T2.clients :
                     c.wazzup_chat = Some(fx'.event.chat_id) => AssignedTo(T2, c, {"bot"})
               /\ fx'.err = ""
               /\ result' \in {"pending", "Ok"}]_vars

\* C28 witness: the callback failed, no manager was found, and the batch ended
\* with Ok with the Client still assigned to the bot.
C28_StaysWithBot ==
    /\ fx.kind = "message"
    /\ fx.bot.callback = "http_error"
    /\ fx.bot.transfer = "no_manager"
    /\ result = "Ok"
    /\ \E c \in Tenant1.clients : AssignedTo(Tenant1, c, {"bot"})

\* The Message stored by the last step, when it stored one.
StoredNow == {m \in Tenant1.messages :
                 fx.kind = "message" /\ fx.outcome = "stored" /\ m.id = fx.event.message_id}

\* The parts are the text part when the text is given, then the part typed by
\* the message type when the URI is given; one part tagged with the type when
\* neither is given.
PartsAsGiven(e, parts) ==
    LET t == Given(e.text)
        u == Given(e.content_uri)
        at == IF t THEN 2 ELSE 1
    IN  /\ Len(parts) >= 1
        /\ t => parts[1] = [type |-> "text", content |-> trim(Unwrap(e.text))]
        /\ u => /\ Len(parts) >= at
                /\ parts[at] = [type |-> e.type, content |-> trim(Unwrap(e.content_uri))]
        /\ (t \/ u) => Len(parts) = (IF t THEN 1 ELSE 0) + (IF u THEN 1 ELSE 0)
        /\ (~t /\ ~u) => Len(parts) = 1 /\ parts[1].type = e.type

\* C29 as stated: the content of every stored Message is the text part when the
\* event's text is non-blank, then the part typed by the message type when the
\* URI is non-blank, and one part tagged with the type when neither is given.
C29_ContentParts == \A m \in StoredNow : PartsAsGiven(fx.event, m.content)

\* C29 amended: the content of every stored Message is non-empty; for an event
\* whose type is not missing_call it is the text part when the text is
\* non-blank, then the part typed by the message type when the URI is non-blank,
\* and one part tagged with the type when neither is given; for a missing_call
\* it is exactly one part tagged with the message type.
C29_ContentPartsUnlessMissedCall ==
    \A m \in StoredNow :
        /\ Len(m.content) >= 1
        /\ fx.event.type # "missing_call" => PartsAsGiven(fx.event, m.content)
        /\ fx.event.type = "missing_call"
              => Len(m.content) = 1 /\ m.content[1].type = fx.event.type

\* C29 witness: an image with text " hi " and URI "u " was stored with the two
\* parts text "hi" and image "u".
C29_TextThenImage ==
    \E m \in StoredNow :
        /\ fx.event.type = "image"
        /\ fx.event.text = Some(<<" ", "h", "i", " ">>)
        /\ fx.event.content_uri = Some(<<"u", " ">>)
        /\ m.content = <<[type |-> "text", content |-> <<"h", "i">>],
                         [type |-> "image", content |-> <<"u">>]>>

\* C30: a get_connection call leaves every cache entry in place, so the entry
\* count does not decrease, and the names cached after it are those cached before
\* it and the name of the call when its connect succeeded (from the empty cache,
\* the count is the number of distinct names a connect succeeded for);
\* remove_connection takes away the entry of its name and no other, and nothing
\* when the name has none; close_all leaves no entry; no other call takes an
\* entry away.
C30_NoEviction ==
    [][LET before == get_active_databases(pools)
           after == get_active_databases(pools')
       IN  /\ ret'.op = "get_connection"
                => /\ after = before \cup (IF ret'.connect = "ok" THEN {ret'.name} ELSE {})
                   /\ active_connections_count(pools') >= active_connections_count(pools)
           /\ ret'.op = "remove_connection"
                => /\ after = before \ {ret'.name}
                   /\ \A name \in after : pools'[name] = pools[name]
                   /\ ret'.name \notin before => pools' = pools
           /\ ret'.op = "close_all" => after = {}
           /\ ret'.op \notin {"remove_connection", "close_all"} => before \subseteq after]_vars

\* C30 witness: get_connection found a dead handle cached, could not connect, and
\* the dead entry is still cached next to another one.
C30_DeadEntryKept ==
    /\ ret.op = "get_connection"
    /\ ret.probe = "dead"
    /\ ret.connect = "failed"
    /\ IsSome(pools[ret.name])
    /\ active_connections_count(pools) = 2

\* C35: a get_connection call whose connect fails returns the connect error and
\* no handle and leaves the cache and the live connections as they were; a call
\* for the same name that comes next reads the cache, probes the entry if there
\* is one (it is dead) and calls connect again.
C35_ConnectFailureKeepsCache ==
    [][/\ (ret'.op = "get_connection" /\ ret'.connect = "failed")
            => /\ ret'.result = "DbError"
               /\ ret'.handle = None
               /\ pools' = pools
               /\ alive' = alive
               /\ opened' = opened
       /\ (ret.op = "get_connection" /\ ret.connect = "failed"
              /\ ret'.op = "get_connection" /\ ret'.name = ret.name)
            => /\ ret'.looked_up
               /\ ret'.probe = (IF IsSome(pools[ret.name]) THEN "dead" ELSE "none")
               /\ ret'.connect \in {"ok", "failed"}]_vars

\* C35 witness: after an earlier connection was opened and cached, a call found
\* the cached handle dead, could not connect and returned the error.
C35_FailedOnDeadEntry ==
    /\ ret.op = "get_connection"
    /\ ret.probe = "dead"
    /\ ret.connect = "failed"
    /\ ret.result = "DbError"
    /\ opened >= 1
    /\ IsSome(pools[ret.name]) /\ Unwrap(pools[ret.name]) \notin alive

\* C36: when a contact event that was processed (a Client was created for it or
\* found for it) is processed again as the next item, the clients table is left
\* as it was.
C36_ReplayInsertsNothing ==
    [][(fx.kind = "contact" /\ fx.outcome \in {"created", "exists"}
          /\ fx'.kind = "contact" /\ fx'.event = fx.event)
        => client_dbs'[<<"t", "1">>].clients = Tenant1.clients]_vars

\* C36 witness: a contact event without a usable email and with a padded chat id
\* was processed twice and two Clients carry its chat id.
C36_TwoClientsOfOneContact ==
    /\ fx.kind = "contact"
    /\ fx.outcome = "created"
    /\ fx.event.email = None
    /\ fx.event.chat_id = Some(<<" ", "c", "1", " ">>)
    /\ \E a, b \in Tenant1.clients :
          /\ a # b
          /\ a.wazzup_chat = Some(<<"c", "1">>) /\ b.wazzup_chat = Some(<<"c", "1">>)
          /\ a.email = GeneratedEmail(fx.event.contact_id, 0)
          /\ b.email = GeneratedEmail(fx.event.contact_id, 1)

\* C37: no two Clients carry the same chat id, and a message event for a chat
\* that a Client carries adds no Client.
C37_OneClientPerChat ==
    /\ [](\A a, b \in Tenant1.clients :
            (IsSome(a.wazzup_chat) /\ a.wazzup_chat = b.wazzup_chat) => a = b)
    /\ [][(pc = "messages" /\ fx'.kind = "message"
             /\ \E c \in Tenant1.clients : c.wazzup_chat = Some(fx'.event.chat_id))
           => client_dbs'[<<"t", "1">>].clients = Tenant1.clients]_vars

\* C37 witness: a message event made the Client of chat c1, and a contact event
\* with the padded chat id made a second Client of chat c1.
C37_MessageThenPaddedContact ==
    /\ fx.kind = "contact"
    /\ fx.outcome = "created"
    /\ fx.event.chat_id = Some(<<" ", "c", "1", " ">>)
    /\ \E a, b \in Tenant1.clients :
          /\ a # b
          /\ a.wazzup_chat = Some(<<"c", "1">>) /\ b.wazzup_chat = Some(<<"c", "1">>)
          /\ a.email = GeneratedEmail(<<"c", "1">>, 0)
    /\ Tenant1.messages # {}

\* C39: after a message step in which the bot callback was made, either the
\* status was "success" and the relay of the reply was started and no transfer,
\* or the callback ended otherwise and the transfer to a manager was started and
\* no relay.
C39_RelayOrTransfer ==
    (fx.kind = "message" /\ fx.bot.callback # "none")
      => \/ /\ fx.bot.callback = "success"
            /\ fx.bot.relay # "none"
            /\ fx.bot.transfer = "none"
         \/ /\ fx.bot.callback # "success"
            /\ fx.bot.transfer # "none"
            /\ fx.bot.relay = "none"

\* C39 witness: the callback answered with a status that is neither "success"
\* nor "error"; nothing was relayed, no transfer was started, and the Client of
\* the chat is still assigned to the bot.
C39_UnknownStatusIgnored ==
    /\ fx.kind = "message"
    /\ fx.bot.callback = "other_status"
    /\ fx.bot.relay = "none"
    /\ fx.bot.transfer = "none"
    /\ \E c \in Tenant1.clients :
          c.wazzup_chat = Some(fx.event.chat_id) /\ AssignedTo(Tenant1, c, {"bot"})

\* C31: in every interleaving of concurrent calls, a task that reads the cache or
\* pings a cached handle holds the read lock; the cache changes only in a step of
\* the task that holds the write lock, while no task holds the read lock; a task
\* that waits for or holds the write lock does not hold the read lock; and every
\* call that was started returns.
C31_LockProtocol ==
    /\ [](\A p \in Tasks : call[p].pc \in {"lookup", "ping"} => p \in readers)
    /\ [](IsSome(writer) => readers = {})
    /\ [](\A p \in Tasks :
            call[p].pc \in {"write_lock", "insert", "remove_lock", "remove",
                             "close_lock", "drain"} => p \notin readers)
    /\ [][pools' # pools
            => /\ IsSome(writer)
               /\ call[Unwrap(writer)].pc \in {"insert", "remove", "drain"}
               /\ call'[Unwrap(writer)].pc = "idle"
               /\ readers = {}]_vars
    /\ \A p \in Tasks : (call[p].pc # "idle") ~> (call[p].pc = "idle")

\* C31 witness: one task waits for the write lock to insert its new connection
\* while the other holds the read lock and pings a cached handle.
C31_WriterWaitsForReader ==
    \E p, q \in Tasks :
        /\ call[p].pc = "write_lock"
        /\ call[q].pc = "ping"
        /\ q \in readers
        /\ writer = None

\* The first call of task p was get_connection, found no entry for its name,
\* and has returned a handle.
MissedFirst(p) ==
    /\ call[p].pc = "idle"
    /\ call[p].n = 1
    /\ call[p].op = "get_connection"
    /\ call[p].probe = "none"
    /\ call[p].result = "Ok"

\* C34: when the first calls of two tasks are get_connection for the same name
\* and both found it uncached (so they ran concurrently), both returned the same
\* handle, that is, one connection was opened, and it is the handle in the cache.
C34_OneConnectionPerMiss ==
    \A p, q \in Tasks :
        (p # q /\ MissedFirst(p) /\ MissedFirst(q) /\ call[p].name = call[q].name)
        => /\ call[p].handle = call[q].handle
           /\ pools[call[p].name] = call[p].handle

\* C34 witness: two tasks missed the same name concurrently; two connections are
\* open, the cache holds the second, and the first caller holds the other one.
C34_TwoConnectionsOneName ==
    \E p, q \in Tasks :
        /\ MissedFirst(p) /\ MissedFirst(q)
        /\ call[p].name = call[q].name
        /\ call[p].handle = Some(1) /\ call[q].handle = Some(2)
        /\ pools[call[p].name] = Some(2)
        /\ alive = {1, 2}

\* The tables of the tenant the concurrent batches write to.
RaceTenant == client_dbs[RaceDb]

\* The events of the two batches, once both have one.
BothStarted(x, y) == x # y /\ IsSome(task[x].msg) /\ IsSome(task[y].msg)

\* C32: when two concurrent batches carry events with the same message id, in
\* every interleaving at most one Message with that id is stored, at most one
\* of the two inserts succeeds and handle_bot_interaction is called at most once.
C32_OneMessagePerId ==
    \A x, y \in Batches :
        (BothStarted(x, y)
           /\ Unwrap(task[x].msg).message_id = Unwrap(task[y].msg).message_id)
        => /\ Cardinality({m \in RaceTenant.messages :
                              m.id = Unwrap(task[x].msg).message_id}) <= 1
           /\ ~(task[x].outcome = "stored" /\ task[y].outcome = "stored")
           /\ ~(task[x].bot.routed /\ task[y].bot.routed)

\* C32 witness: both batches passed the lookup by id with the same id; one
\* insert succeeded and its message went to the bot, the other insert was refused.
C32_SecondInsertRefused ==
    \E x, y \in Batches :
        /\ BothStarted(x, y)
        /\ Unwrap(task[x].msg).message_id = Unwrap(task[y].msg).message_id
        /\ task[x].outcome = "stored" /\ task[x].bot.routed
        /\ task[y].outcome = "insert_failed"

\* C33: when two concurrent batches carry events with different message ids,
\* the same chat id and the same content, at most one of the two is stored.
C33_OneMessagePerContent ==
    \A x, y \in Batches :
        (BothStarted(x, y)
           /\ Unwrap(task[x].msg).message_id # Unwrap(task[y].msg).message_id
           /\ Unwrap(task[x].msg).chat_id = Unwrap(task[y].msg).chat_id
           /\ content_for_check(Unwrap(task[x].msg)) = content_for_check(Unwrap(task[y].msg)))
        => ~(task[x].outcome = "stored" /\ task[y].outcome = "stored")

\* C33 witness: the texts "hi" with ids m1 and m2 are both stored in chat c1.
C33_BothCopiesStored ==
    /\ \A b \in Batches : task[b].pc = "done" /\ task[b].outcome = "stored"
    /\ \E m, n \in RaceTenant.messages :
          /\ m.id = <<"m", "1">> /\ n.id = <<"m", "2">>
          /\ m.chat_id = n.chat_id
          /\ m.content = n.content

\* C38: when two concurrent batches carry different message events for the same
\* chat, which no Client carried before, at most one Client carries it.
C38_OneClientForNewChat ==
    \A x, y \in Batches :
        (BothStarted(x, y)
           /\ task[x].msg # task[y].msg
           /\ Unwrap(task[x].msg).chat_id = Unwrap(task[y].msg).chat_id)
        => Cardinality({c \in RaceTenant.clients :
                           c.wazzup_chat = Some(Unwrap(task[x].msg).chat_id)}) <= 1

\* C38 witness: both batches inserted a Client for chat c1, one millisecond apart.
C38_TwoClientsForNewChat ==
    /\ \A b \in Batches : task[b].created
    /\ \E a, c \in RaceTenant.clients :
          /\ a.email = GeneratedEmail(<<"c", "1">>, 0)
          /\ c.email = GeneratedEmail(<<"c", "1">>, 1)
          /\ a.wazzup_chat = c.wazzup_chat

====
